---- MODULE Spec2Model ----
(***************************************************************************)
(* Model of the retrieval-augmented generation pipeline of the backend:    *)
(* services/rag_pipeline.py (retrieval, citation extraction, coverage),    *)
(* services/citation_tracker.py (tracking and validation of citations),    *)
(* services/file_processor.py (reprocessing of documents) and the          *)
(* relational schema of alembic/versions/001_initial_schema.py.            *)
(*                                                                         *)
(* Texts are sequences of one-character strings.  Python floats are        *)
(* modelled as exact rationals <<numerator, denominator>>.                 *)
(***************************************************************************)
EXTENDS Integers, Sequences, FiniteSets, TLC

VARIABLES
    response_text,      \* _extract_citations / _validate_citation_coverage: the response
    context_chunks,     \* the chunks handed to _extract_citations, in retrieval order
    citations,          \* the list returned by _extract_citations
    coverage_report,    \* the dict returned by _validate_citation_coverage
    pc,                 \* position of the conversation request in generate_response
    chunks,             \* rows of table chunks: [id, document_id, sequence_number]
    similar_chunks,     \* _retrieve_context: the (chunk, similarity) list of the index
    retrieval,          \* what the retrieval of the request met: [outcome, candidates]
    max_context_chunks, \* RAGPipeline.max_context_chunks
    similarity_threshold, \* RAGPipeline.similarity_threshold, in hundredths
    episode_id,         \* ConversationRequest.episode_id of the request, or None
    prompt,             \* the messages built by _build_prompt
    failure,            \* the step whose exception ended the request, or None
    n_requests,         \* conversation requests started so far
    sources,            \* ids of the rows of table sources
    documents,          \* ids of the rows of table documents
    processing_status,  \* documents.processing_status, by document id
    db_citations,       \* rows of table citations
    beats,              \* rows of table beats
    rp,                 \* the reprocess_document run in progress
    next_chunk_id,      \* the next fresh chunk id (ids are uuid4 values)
    n_background,       \* reprocess and delete operations started so far
    validation,         \* the result of the last CitationTracker query
    chunking,           \* TextChunker.chunk_text: the call and what it returned
    now,                \* datetime.now(), in seconds
    redis,              \* the embedding cache: the value stored under each key
    gateway,            \* the EmbeddingsService instance of each request
    call,               \* the embedding call each request is in
    external_requests,  \* the requests received by the embedding model
    embed_history,      \* the embedding calls that have ended, in order
    stream,             \* the streaming conversation: position and events sent
    ingest,             \* uploads and chunk-processing runs: runs and error messages
    manager             \* the ConnectionManager of api/studio.py and its WebSockets

citeVars == <<response_text, context_chunks, citations, coverage_report>>
retrVars == <<similar_chunks, retrieval, max_context_chunks, similarity_threshold>>
reqVars == <<episode_id, prompt, failure, n_requests>>
dbVars == <<sources, documents, processing_status, db_citations, beats>>
procVars == <<rp, next_chunk_id, n_background>>

embedVars == <<now, redis, gateway, call, external_requests, embed_history>>
auxVars == <<chunking, embedVars, stream, ingest, manager>>

vars == <<citeVars, pc, chunks, retrVars, reqVars, dbVars, procVars, validation, auxVars>>

None == "None"

(***************************************************************************)
(* Bounds of the model.                                                    *)
(***************************************************************************)
MaxSegs == 3        \* a response text is made of at most MaxSegs segments
MaxContext == 2     \* a context list holds at most MaxContext chunks
MaxChunks == 4      \* max_context_chunks is configured between 1 and MaxChunks
MaxRequests == 1    \* conversation requests per behaviour
MaxBackground == 1  \* reprocess and delete operations per behaviour
MaxStored == 2      \* rows of table citations written through track_citations calls
MaxChunkSegs == 3   \* a document given to the chunker is made of at most MaxChunkSegs pieces
MaxBatch == 2       \* generate_embeddings_batch is given at most MaxBatch texts
MaxCalls == 2       \* embedding calls per behaviour
MaxTime == 60       \* the clock stops at MaxTime seconds
MaxDeltas == 3      \* the language model streams at most MaxDeltas chunks
MaxHistory == 6     \* a conversation history holds at most MaxHistory exchanges
MaxRuns == 2        \* uploads and reprocess calls per behaviour
MaxBeats == 3       \* conversation requests with an episode id per behaviour
MaxEvents == 2      \* messages sent through the ConnectionManager per behaviour

(***************************************************************************)
(* Rationals.                                                              *)
(***************************************************************************)
Rat(n, d) == [num |-> n, den |-> d]
RatLeq(a, b) == a.num * b.den <= b.num * a.den
RatEq(a, b) == a.num * b.den = b.num * a.den
RatMin(a, b) == IF RatLeq(a, b) THEN a ELSE b
RatAdd(a, b) == [num |-> a.num * b.den + b.num * a.den, den |-> a.den * b.den]
RatMul(a, b) == [num |-> a.num * b.num, den |-> a.den * b.den]

Min(a, b) == IF a <= b THEN a ELSE b
Max(a, b) == IF a >= b THEN a ELSE b

(***************************************************************************)
(* Python string operations.                                               *)
(***************************************************************************)
\* str.lower() on one character
Lower(c) ==
    CASE c = "A" -> "a" [] c = "B" -> "b" [] c = "C" -> "c" [] c = "D" -> "d"
      [] c = "E" -> "e" [] c = "F" -> "f" [] c = "G" -> "g" [] c = "H" -> "h"
      [] c = "I" -> "i" [] c = "J" -> "j" [] c = "K" -> "k" [] c = "L" -> "l"
      [] c = "M" -> "m" [] c = "N" -> "n" [] c = "O" -> "o" [] c = "P" -> "p"
      [] c = "Q" -> "q" [] c = "R" -> "r" [] c = "S" -> "s" [] c = "T" -> "t"
      [] c = "U" -> "u" [] c = "V" -> "v" [] c = "W" -> "w" [] c = "X" -> "x"
      [] c = "Y" -> "y" [] c = "Z" -> "z" [] OTHER -> c

\* the characters str.isspace(), str.strip(), str.split() and \s treat as blank
Whitespace == {" ", "\t", "\n", "\r", "\f"}

\* s.lower()
lower(s) == [i \in 1..Len(s) |-> Lower(s[i])]

\* needle in hay
Contains(hay, needle) ==
    \E i \in 1..(Len(hay) - Len(needle) + 1) :
        SubSeq(hay, i, i + Len(needle) - 1) = needle

\* text.split(sep) for a one-character separator: the pieces between separators
RECURSIVE split(_, _)
split(text, sep) ==
    IF \A i \in 1..Len(text) : text[i] # sep
    THEN <<text>>
    ELSE LET k == CHOOSE i \in 1..Len(text) :
                      text[i] = sep /\ \A j \in 1..(i - 1) : text[j] # sep
         IN  <<SubSeq(text, 1, k - 1)>> \o split(SubSeq(text, k + 1, Len(text)), sep)

(***************************************************************************)
(* Sources, documents and chunks that the inputs are drawn from.           *)
(* An absent author (None or "", both falsy in Python) is <<>>.            *)
(***************************************************************************)
SourceIds == {"s1", "s2", "s3"}

SourceTitle(s) ==
    CASE s = "s1" -> <<"K","a","y"," ","B","i","o">>
      [] s = "s2" -> <<"A","b","e"," ","B","i","o">>
      [] s = "s3" -> <<"A","b","e"," ","B","i","o">>

SourceAuthor(s) ==
    CASE s = "s1" -> <<"K","a","y">>
      [] s = "s2" -> <<>>
      [] s = "s3" -> <<"A","b","e">>

\* a chunk as the pipeline holds it: id, document_id and document.source_id
MkChunk(id, d, s) == [id |-> id, document_id |-> d, source_id |-> s]

ContextChunkPool ==
    { MkChunk(1, "d1", "s1"), MkChunk(2, "d2", "s2"),
      MkChunk(3, "d3", "s3"), MkChunk(4, "d2", "s2") }

(***************************************************************************)
(* RAGPipeline._extract_citations                                          *)
(***************************************************************************)
\* the literal prefix of citation_pattern = r'\[Source: ([^\]]+)\]'
SourcePrefix == <<"[","S","o","u","r","c","e",":"," ">>

\* first index >= j holding "]", or Len(text) + 1: the end of the run [^\]]*
RunEnd(text, j) ==
    IF \E k \in j..Len(text) : text[k] = "]"
    THEN CHOOSE k \in j..Len(text) :
             text[k] = "]" /\ \A m \in j..(k - 1) : text[m] # "]"
    ELSE Len(text) + 1

\* re.finditer(citation_pattern, text) from position i: the spans <<first, last>>
\* of group 1 of the non-overlapping matches, left to right
RECURSIVE MarkerSpans(_, _)
MarkerSpans(text, i) ==
    IF i + Len(SourcePrefix) > Len(text)
    THEN <<>>
    ELSE IF SubSeq(text, i, i + Len(SourcePrefix) - 1) = SourcePrefix
         THEN LET j == i + Len(SourcePrefix)
                  k == RunEnd(text, j)
              IN  IF k <= Len(text) /\ k > j
                  THEN <<(<<j, k - 1>>)>> \o MarkerSpans(text, k + 1)
                  ELSE MarkerSpans(text, i + 1)
         ELSE MarkerSpans(text, i + 1)

\* citation_matches = re.findall(citation_pattern, response_text)
citation_matches(text) ==
    LET spans == MarkerSpans(text, 1)
    IN  [n \in 1..Len(spans) |-> SubSeq(text, spans[n][1], spans[n][2])]

\* the score of one chunk for one citation text (lines 251-259)
MatchScore(citation_text, chunk) ==
    LET title == SourceTitle(chunk.source_id)
        author == SourceAuthor(chunk.source_id)
        title_match == Contains(lower(title), lower(citation_text))
        author_match == author # <<>> /\ Contains(lower(citation_text), lower(author))
    IN  (IF title_match THEN 2 ELSE 0) + (IF author_match THEN 1 ELSE 0)

\* BestMatch with "score >= best_score": a later chunk of equal score replaces the best
RECURSIVE BestMatch_last_wins(_, _, _, _)
BestMatch_last_wins(citation_text, chs, i, best) ==
    IF i > Len(chs)
    THEN best
    ELSE LET score == MatchScore(citation_text, chs[i])
         IN  IF score >= best.score
             THEN BestMatch_last_wins(citation_text, chs, i + 1, [idx |-> i, score |-> score])
             ELSE BestMatch_last_wins(citation_text, chs, i + 1, best)

\* the loop of lines 247-263 from chunk i on; best = [idx, score], idx 0 = None
RECURSIVE BestMatch(_, _, _, _)
BestMatch(citation_text, chs, i, best) ==
    IF i > Len(chs)
    THEN best
    ELSE LET score == MatchScore(citation_text, chs[i])
         IN  IF score > best.score
             THEN BestMatch(citation_text, chs, i + 1, [idx |-> i, score |-> score])
             ELSE BestMatch(citation_text, chs, i + 1, best)

\* Citation(...) of lines 266-277; confidence_score = min(best_score / 3.0, 1.0)
MkCitation(best_match, citation_text, best_score) ==
    [ chunk_id |-> best_match.id,
      source_id |-> best_match.source_id,
      document_id |-> best_match.document_id,
      citation_text |-> citation_text,
      confidence_score |-> RatMin(Rat(best_score, 3), Rat(1, 1)) ]

RECURSIVE ExtractFrom(_, _, _)
ExtractFrom(matches, chs, n) ==
    IF n > Len(matches)
    THEN <<>>
    ELSE LET best == BestMatch(matches[n], chs, 1, [idx |-> 0, score |-> 0])
         IN  (IF best.idx # 0
              THEN << MkCitation(chs[best.idx], matches[n], best.score) >>
              ELSE <<>>)
             \o ExtractFrom(matches, chs, n + 1)

_extract_citations(text, chs) == ExtractFrom(citation_matches(text), chs, 1)

(***************************************************************************)
(* RAGPipeline._validate_citation_coverage and _is_factual_claim           *)
(***************************************************************************)
factual_indicators ==
    { <<"i","n">>, <<"o","n">>, <<"d","u","r","i","n","g">>, <<"s","a","i","d">>,
      <<"w","r","o","t","e">>, <<"d","e","c","l","a","r","e","d">>,
      <<"s","i","g","n","e","d">>, <<"p","a","s","s","e","d">>,
      <<"e","n","a","c","t","e","d">>,
      <<"e","s","t","a","b","l","i","s","h","e","d">>,
      <<"b","o","r","n">>, <<"d","i","e","d">>,
      <<"e","l","e","c","t","e","d">>, <<"a","p","p","o","i","n","t","e","d">> }

_is_factual_claim(sentence) ==
    \E indicator \in factual_indicators : Contains(lower(sentence), indicator)

CoverageThreshold == 90

\* CoveragePercentage without the min(..., 1.0) clamp
CoveragePercentage_unclamped(n_citations, n_factual) ==
    RatMul(Rat(n_citations, Max(n_factual, 1)), Rat(100, 1))

\* min(len(citations) / max(len(factual_sentences), 1), 1.0) * 100
CoveragePercentage(n_citations, n_factual) ==
    RatMul(RatMin(Rat(n_citations, Max(n_factual, 1)), Rat(1, 1)), Rat(100, 1))

_validate_citation_coverage(text, cits) ==
    LET sentences == split(text, ".")
        factual_sentences == SelectSeq(sentences, _is_factual_claim)
        coverage_percentage == CoveragePercentage(Len(cits), Len(factual_sentences))
    IN  [ total_sentences |-> Len(sentences),
          factual_claims |-> Len(factual_sentences),
          citations_provided |-> Len(cits),
          coverage_percentage |-> coverage_percentage,
          meets_requirement |-> RatLeq(Rat(CoverageThreshold, 1), coverage_percentage),
          missing_citations |-> Max(0, Len(factual_sentences) - Len(cits)) ]

(***************************************************************************)
(* Inputs of the extraction runs: response texts built from segments.      *)
(***************************************************************************)
Marker(t) == SourcePrefix \o t \o <<"]">>

Segments ==
    { Marker(<<"k","a","y"," ","b","i","o">>),
      Marker(<<"A","B","E">>),
      Marker(<<"A","b","e"," ","B","i","o",","," ","p",".","1","2">>),
      <<"D","i","e","d"," ","i","n"," ","1","8","6","5","."," ">>,
      <<"B","o","r","n"," ","i","n"," ","1","8","0","9"," ">>,
      <<"."," ">>,
      SourcePrefix,
      <<"]">> }

RECURSIVE Flatten(_)
Flatten(ss) == IF ss = <<>> THEN <<>> ELSE Head(ss) \o Flatten(Tail(ss))

ResponseTexts == { Flatten(ss) : ss \in UNION { [1..n -> Segments] : n \in 0..MaxSegs } }

ContextLists == UNION { [1..n -> ContextChunkPool] : n \in 0..MaxContext }

NoReport == [ total_sentences |-> 0, factual_claims |-> 0, citations_provided |-> 0,
              coverage_percentage |-> Rat(0, 1), meets_requirement |-> FALSE,
              missing_citations |-> 0 ]

(***************************************************************************)
(* EmbeddingsService.similarity_search and RAGPipeline._retrieve_context   *)
(***************************************************************************)
\* documents.source_id of the documents the model uses
DocSource(d) ==
    CASE d = "d1" -> "s1" [] d = "d2" -> "s2" [] d = "d3" -> "s3"

\* similarities, in hundredths, that the index computes for a chunk
SimValues == {50, 70, 90}

MaxPerDocument == 3

\* sequences of length n over S without repetition
InjectiveSeqs(S, n) ==
    { q \in [1..n -> S] : \A i, j \in 1..n : i # j => q[i] # q[j] }

\* the similarity columns a result of n rows can carry:
\* ORDER BY similarity DESC, every row >= similarity_threshold
SimColumns(n, threshold) ==
    { v \in [1..n -> { x \in SimValues : x >= threshold }] :
        \A i \in 1..(n - 1) : v[i] >= v[i + 1] }

\* similarity_search without its LIMIT
similarity_search_unlimited(chs, limit, threshold, source_ids) ==
    LET rows == { c \in chs : source_ids = None \/ DocSource(c.document_id) = source_ids }
    IN  UNION { { [i \in 1..n |-> <<q[i], v[i]>>] :
                    q \in InjectiveSeqs(rows, n), v \in SimColumns(n, threshold) } :
                n \in 0..Cardinality(rows) }

\* similarity_search: the results the index can return for some query: at
\* most `limit` rows of chunks (of the sources source_ids, when given) whose
\* similarity is at least the threshold, in descending order of similarity
similarity_search(chs, limit, threshold, source_ids) ==
    LET rows == { c \in chs : source_ids = None \/ DocSource(c.document_id) = source_ids }
    IN  UNION { { [i \in 1..n |-> <<q[i], v[i]>>] :
                    q \in InjectiveSeqs(rows, n), v \in SimColumns(n, threshold) } :
                n \in 0..Min(limit, Cardinality(rows)) }

\* sorted(similar_chunks, key=lambda x: x[1], reverse=True): stable insertion
RECURSIVE InsertDesc(_, _)
InsertDesc(sorted, x) ==
    IF sorted = <<>> THEN <<x>>
    ELSE IF Head(sorted)[2] >= x[2]
         THEN <<Head(sorted)>> \o InsertDesc(Tail(sorted), x)
         ELSE <<x>> \o sorted

RECURSIVE SortDesc(_)
SortDesc(q) ==
    IF q = <<>> THEN <<>>
    ELSE InsertDesc(SortDesc(SubSeq(q, 1, Len(q) - 1)), q[Len(q)])

\* number of selected chunks of document d
DocumentCount(selected, d) ==
    Cardinality({ i \in 1..Len(selected) : selected[i].document_id = d })

\* SelectDiverse without the per-document cap
RECURSIVE SelectDiverse_uncapped(_, _, _, _)
SelectDiverse_uncapped(sorted_chunks, i, selected, max_chunks) ==
    IF i > Len(sorted_chunks)
    THEN selected
    ELSE LET sel == Append(selected, sorted_chunks[i][1])
         IN  IF Len(sel) >= max_chunks THEN sel
             ELSE SelectDiverse_uncapped(sorted_chunks, i + 1, sel, max_chunks)

\* the loop of lines 143-150 from candidate i on
RECURSIVE SelectDiverse(_, _, _, _)
SelectDiverse(sorted_chunks, i, selected, max_chunks) ==
    IF i > Len(sorted_chunks)
    THEN selected
    ELSE LET chunk == sorted_chunks[i][1]
         IN  IF DocumentCount(selected, chunk.document_id) < MaxPerDocument
             THEN LET sel == Append(selected, chunk)
                  IN  IF Len(sel) >= max_chunks
                      THEN sel
                      ELSE SelectDiverse(sorted_chunks, i + 1, sel, max_chunks)
             ELSE SelectDiverse(sorted_chunks, i + 1, selected, max_chunks)

\* the chunk objects of the result, with their document.source_id
AsContext(selected) ==
    [i \in 1..Len(selected) |->
        MkChunk(selected[i].id, selected[i].document_id, DocSource(selected[i].document_id))]

\* _retrieve_context raising when no candidate is returned
_retrieve_context_empty_raises(outcome, similar, max_chunks) ==
    IF outcome = "ok" /\ similar = <<>>
    THEN [raised |-> TRUE, selected_chunks |-> <<>>]
    ELSE [raised |-> FALSE,
          selected_chunks |-> AsContext(SelectDiverse(SortDesc(similar), 1, <<>>, max_chunks))]

\* _retrieve_context (lines 126-157): outcome is that of find_similar_chunks,
\* "ok" or the failure of the embedding call or of the index query; a failure
\* is caught and an empty list returned
_retrieve_context(outcome, similar, max_chunks) ==
    IF outcome # "ok"
    THEN [raised |-> FALSE, selected_chunks |-> <<>>]
    ELSE [raised |-> FALSE,
          selected_chunks |-> AsContext(SelectDiverse(SortDesc(similar), 1, <<>>, max_chunks))]

RetrievalOutcomes == {"ok", "embedding_error", "index_error"}

DocIds == {"d1", "d2", "d3"}

NoPrompt == [context |-> <<>>]

NoRun == [pc |-> "idle", doc |-> None, added |-> 0, result |-> None]

RequestIdle ==
    /\ episode_id = None
    /\ prompt = NoPrompt
    /\ failure = None
    /\ n_requests = 0

NoValidation == [op |-> "none"]

ProcIdle ==
    /\ rp = NoRun
    /\ next_chunk_id = 7
    /\ n_background = 0
    /\ validation = NoValidation

\* no chunk_text call has been made
NoChunking == [method |-> None]

\* no EmbeddingsService has been constructed and the cache is empty
EmbedIdle ==
    /\ now = 0
    /\ redis = <<>>
    /\ gateway = <<>>
    /\ call = <<>>
    /\ external_requests = <<>>
    /\ embed_history = <<>>

\* no streaming conversation has been requested
NoStream == [pc |-> "none"]

\* no file has been uploaded and no chunk-processing run has started
NoIngest == [runs |-> <<>>, error_message |-> [d \in DocIds |-> None]]

Users == {"u1", "u2"}

Sockets == {"w1", "w2", "w3"}

\* ConnectionManager.__init__: no connection is registered; no WebSocket has
\* been opened
NoManager ==
    [ active_connections |-> [u \in Users |-> None],
      sockets |-> [w \in Sockets |-> [pc |-> "none", user_id |-> None, delivered |-> 0]],
      sent |-> 0, dropped |-> 0, answered |-> 0 ]

AuxIdle ==
    /\ chunking = NoChunking
    /\ EmbedIdle
    /\ stream = NoStream
    /\ ingest = NoIngest
    /\ manager = NoManager

NoRetrieval == [outcome |-> "none", candidates |-> 0]

\* step 1 of generate_response for a request restricted to source_ids
RetrieveContext(source_ids) ==
    /\ pc = "retrieving"
    /\ \E outcome \in RetrievalOutcomes :
       \E similar \in (IF outcome = "ok"
                       THEN similarity_search(chunks, max_context_chunks * 2,
                                              similarity_threshold, source_ids)
                       ELSE {<<>>}) :
          LET r == _retrieve_context(outcome, similar, max_context_chunks)
          IN  /\ similar_chunks' = similar
              /\ retrieval' = [outcome |-> outcome, candidates |-> Len(similar)]
              /\ context_chunks' = r.selected_chunks
              /\ pc' = IF r.raised THEN "failed" ELSE "retrieved"
              /\ failure' = IF r.raised THEN "retrieve" ELSE failure
    /\ UNCHANGED <<response_text, citations, coverage_report, chunks,
                   max_context_chunks, similarity_threshold,
                   episode_id, prompt, n_requests, dbVars, procVars>>
    /\ UNCHANGED <<validation, auxVars>>

(***************************************************************************)
(* Specification of one retrieval over a pool of six chunks of two         *)
(* documents.                                                              *)
(***************************************************************************)
RetrievalPool ==
    { [id |-> 1, document_id |-> "d1", sequence_number |-> 0],
      [id |-> 2, document_id |-> "d1", sequence_number |-> 1],
      [id |-> 3, document_id |-> "d1", sequence_number |-> 2],
      [id |-> 4, document_id |-> "d1", sequence_number |-> 3],
      [id |-> 5, document_id |-> "d2", sequence_number |-> 0],
      [id |-> 6, document_id |-> "d2", sequence_number |-> 1] }

CiteIdle ==
    /\ response_text = <<>>
    /\ context_chunks = <<>>
    /\ citations = <<>>
    /\ coverage_report = NoReport

InitRetrieve ==
    /\ CiteIdle
    /\ pc = "retrieving"
    /\ chunks = RetrievalPool
    /\ similar_chunks = <<>>
    /\ retrieval = NoRetrieval
    /\ max_context_chunks \in 1..MaxChunks
    /\ similarity_threshold \in {70, 99}
    /\ RequestIdle
    /\ sources = {"s1", "s2"}
    /\ documents = {"d1", "d2"}
    /\ processing_status = [d \in DocIds |-> "completed"]
    /\ db_citations = {}
    /\ beats = {}
    /\ ProcIdle
    /\ AuxIdle

RetrieveAny == RetrieveContext(None)

RetrieveFiltered == \E s \in {"s1", "s2"} : RetrieveContext(s)

NextRetrieve == RetrieveAny \/ RetrieveFiltered

SpecRetrieve == InitRetrieve /\ [][NextRetrieve]_vars

(***************************************************************************)
(* Specification of one extraction run (steps 4 and 5 of                   *)
(* generate_response on given response text and context).                  *)
(***************************************************************************)
InitCite ==
    /\ response_text \in ResponseTexts
    /\ context_chunks \in ContextLists
    /\ citations = <<>>
    /\ coverage_report = NoReport
    /\ pc = "generated"
    /\ chunks = {}
    /\ similar_chunks = <<>>
    /\ retrieval = NoRetrieval
    /\ max_context_chunks = MaxChunks
    /\ similarity_threshold = 70
    /\ RequestIdle
    /\ sources = {}
    /\ documents = {}
    /\ processing_status = [d \in DocIds |-> "completed"]
    /\ db_citations = {}
    /\ beats = {}
    /\ ProcIdle
    /\ AuxIdle

ExtractCitations ==
    /\ pc = "generated"
    /\ citations' = _extract_citations(response_text, context_chunks)
    /\ pc' = "extracted"
    /\ UNCHANGED <<response_text, context_chunks, coverage_report, chunks, retrVars,
                   reqVars, dbVars, procVars>>
    /\ UNCHANGED <<validation, auxVars>>

ValidateCitationCoverage ==
    /\ pc = "extracted"
    /\ coverage_report' = _validate_citation_coverage(response_text, citations)
    /\ pc' = "covered"
    /\ UNCHANGED <<response_text, context_chunks, citations, chunks, retrVars,
                   reqVars, dbVars, procVars>>
    /\ UNCHANGED <<validation, auxVars>>

NextCite == ExtractCitations \/ ValidateCitationCoverage

SpecCite == InitCite /\ [][NextCite]_vars

(***************************************************************************)
(* The conversation endpoint over the database, interleaved with          *)
(* reprocess_document and delete_source.                                   *)
(***************************************************************************)
EpisodeIds == {"e1"}

\* citations.beat_id of a citation tied to no beat
NoBeat == 0

\* citations.validation_score of a citation never validated (NULL)
NoScore == [num |-> 0, den |-> 0]

NoMetadata == <<>>

\* the responses the language model returns
PipelineTexts ==
    { Marker(<<"k","a","y"," ","b","i","o">>),
      <<"B","o","r","n"," ","i","n"," ","1","8","0","9"," ">> \o Marker(<<"A","b","e"," ","B","i","o">>) }

\* the row that db.add(citation) inserts
DbCitation(c, id, episode, beat) ==
    [id |-> id, chunk_id |-> c.chunk_id, source_id |-> c.source_id,
     document_id |-> c.document_id, citation_text |-> c.citation_text,
     confidence_score |-> c.confidence_score, episode_id |-> episode,
     beat_id |-> beat, validation_score |-> NoScore,
     validation_metadata |-> NoMetadata]

\* the foreign keys of rows of table citations: chunk_id -> chunks.id,
\* document_id -> documents.id, source_id -> sources.id
ForeignKeysHold(rows, chs, docs, srcs) ==
    \A r \in rows :
        /\ \E c \in chs : c.id = r.chunk_id
        /\ r.document_id \in docs
        /\ r.source_id \in srcs

\* conversation endpoint called with episode id ep (None when absent)
StartRequest(ep) ==
    /\ pc \in {"idle", "done", "failed"}
    /\ n_requests < MaxRequests
    /\ n_requests' = n_requests + 1
    /\ episode_id' = ep
    /\ pc' = "retrieving"
    /\ response_text' = <<>>
    /\ context_chunks' = <<>>
    /\ citations' = <<>>
    /\ coverage_report' = NoReport
    /\ similar_chunks' = <<>>
    /\ retrieval' = NoRetrieval
    /\ prompt' = NoPrompt
    /\ failure' = None
    /\ UNCHANGED <<chunks, max_context_chunks, similarity_threshold, dbVars, procVars>>
    /\ UNCHANGED <<validation, auxVars>>

\* step 2 of generate_response: the prompt carries the context chunks
BuildPrompt ==
    /\ pc = "retrieved"
    /\ prompt' = [context |-> [i \in 1..Len(context_chunks) |-> context_chunks[i].id]]
    /\ similar_chunks' = <<>>
    /\ pc' = "prompted"
    /\ UNCHANGED <<citeVars, chunks, retrieval, max_context_chunks, similarity_threshold,
                   episode_id, failure, n_requests, dbVars, procVars>>
    /\ UNCHANGED <<validation, auxVars>>

\* step 3 of generate_response: the language-model call returns a text or raises
GenerateLLMResponse ==
    /\ pc = "prompted"
    /\ \/ /\ response_text' \in PipelineTexts
          /\ pc' = "generated"
          /\ UNCHANGED failure
       \/ /\ pc' = "failed"
          /\ failure' = "llm"
          /\ UNCHANGED response_text
    /\ UNCHANGED <<context_chunks, citations, coverage_report, chunks, retrVars,
                   episode_id, prompt, n_requests, dbVars, procVars>>
    /\ UNCHANGED <<validation, auxVars>>

\* step 6 of generate_response and the result, lines 92-111: track_citations
\* when an episode id was given; an insert that breaks a foreign key is
\* rolled back and raised; the commit expires the context chunks, which the
\* result reads again, so that a context chunk deleted meanwhile raises
TrackCitations ==
    /\ pc = "covered"
    /\ IF episode_id = None
       THEN /\ pc' = "tracked"
            /\ UNCHANGED <<db_citations, failure>>
       ELSE LET base == Cardinality(db_citations)
                rows == { DbCitation(citations[i], base + i, episode_id, NoBeat) :
                            i \in 1..Len(citations) }
                loaded == \A i \in 1..Len(context_chunks) :
                              \E c \in chunks : c.id = context_chunks[i].id
            IN  IF ForeignKeysHold(rows, chunks, documents, sources)
                THEN /\ db_citations' = db_citations \cup rows
                     /\ pc' = IF loaded THEN "tracked" ELSE "failed"
                     /\ failure' = IF loaded THEN failure ELSE "result"
                ELSE /\ pc' = "failed"
                     /\ failure' = "track"
                     /\ UNCHANGED db_citations
    /\ UNCHANGED <<citeVars, chunks, retrVars, episode_id, prompt, n_requests,
                   sources, documents, processing_status, beats, procVars>>
    /\ UNCHANGED <<validation, auxVars>>

\* create_conversation after generate_response: the beat record of the episode;
\* sequence_number 0 stands for a request that carries none
CreateBeat(sequence_number) ==
    /\ pc = "tracked"
    /\ beats' = IF episode_id = None THEN beats
                 ELSE beats \cup
                      { [id |-> Cardinality(beats) + 1, episode_id |-> episode_id,
                         sequence_number |-> IF sequence_number = 0 THEN 1
                                             ELSE sequence_number,
                         lincoln_response |-> response_text] }
    /\ pc' = "done"
    /\ UNCHANGED <<citeVars, chunks, retrVars, reqVars,
                   sources, documents, processing_status, db_citations, procVars>>
    /\ UNCHANGED <<validation, auxVars>>

\* number of chunks text_chunker.chunk_text cuts document d into
DocChunkCount(d) == IF d = "d1" THEN 2 ELSE 1

\* the chunk rows of document d flushed by a commit of _process_chunks after
\* n chunks were added to the session
FlushedChunks(d, n) ==
    { [id |-> next_chunk_id + i, document_id |-> d, sequence_number |-> i] :
        i \in 0..(n - 1) }

\* the database letting a referenced chunk be deleted
DeleteAllowed_unenforced(doomed_chunks, doomed_docs, doomed_srcs) == TRUE

\* the foreign keys of table citations carry no ON DELETE action: deleting
\* a referenced row is refused
DeleteAllowed(doomed_chunks, doomed_docs, doomed_srcs) ==
    \A r \in db_citations :
        /\ \A c \in doomed_chunks : c.id # r.chunk_id
        /\ r.document_id \notin doomed_docs
        /\ r.source_id \notin doomed_srcs

\* reprocess_document up to its first commit: the chunks of the document
\* are deleted and its status reset
ReprocessDocument(d) ==
    /\ rp.pc = "idle"
    /\ n_background < MaxBackground
    /\ d \in documents
    /\ n_background' = n_background + 1
    /\ LET doomed == { c \in chunks : c.document_id = d }
       IN  IF DeleteAllowed(doomed, {}, {})
           THEN /\ chunks' = chunks \ doomed
                /\ processing_status' = [processing_status EXCEPT ![d] = "processing"]
                /\ rp' = [pc |-> "processing", doc |-> d, added |-> 0, result |-> None]
           ELSE /\ rp' = [NoRun EXCEPT !.doc = d, !.result = "raised"]
                /\ UNCHANGED <<chunks, processing_status>>
    /\ UNCHANGED <<citeVars, pc, retrVars, reqVars, sources, documents,
                   db_citations, beats, next_chunk_id>>
    /\ UNCHANGED <<validation, auxVars>>

\* _process_chunks, lines 248-250: status "chunking" is committed
ProcessChunksBegin ==
    /\ rp.pc = "processing"
    /\ IF rp.doc \in documents
       THEN /\ processing_status' = [processing_status EXCEPT ![rp.doc] = "chunking"]
            /\ rp' = [rp EXCEPT !.pc = "chunking"]
       ELSE /\ rp' = [NoRun EXCEPT !.doc = rp.doc, !.result = "raised"]
            /\ UNCHANGED processing_status
    /\ UNCHANGED <<citeVars, pc, chunks, retrVars, reqVars, sources, documents,
                   db_citations, beats, next_chunk_id, n_background>>
    /\ UNCHANGED <<validation, auxVars>>

\* _process_chunks, lines 260-281: the embedding call for the next chunk
\* returns and the chunk is added to the session, or raises; the handler
\* commits status "error" together with the chunks added so far
ProcessChunkEmbed ==
    /\ rp.pc = "chunking"
    /\ rp.added < DocChunkCount(rp.doc)
    /\ \/ /\ rp' = [rp EXCEPT !.added = rp.added + 1]
          /\ UNCHANGED <<chunks, processing_status, next_chunk_id>>
       \/ IF rp.doc \in documents
          THEN /\ chunks' = chunks \cup FlushedChunks(rp.doc, rp.added)
               /\ next_chunk_id' = next_chunk_id + rp.added
               /\ processing_status' = [processing_status EXCEPT ![rp.doc] = "error"]
               /\ rp' = [NoRun EXCEPT !.doc = rp.doc, !.result = "error"]
          ELSE /\ rp' = [NoRun EXCEPT !.doc = rp.doc, !.result = "raised"]
               /\ UNCHANGED <<chunks, processing_status, next_chunk_id>>
    /\ UNCHANGED <<citeVars, pc, retrVars, reqVars, sources, documents,
                   db_citations, beats, n_background>>
    /\ UNCHANGED <<validation, auxVars>>

\* _process_chunks, lines 283-286: the chunks and status "indexed" are committed
ProcessChunksFinish ==
    /\ rp.pc = "chunking"
    /\ rp.added = DocChunkCount(rp.doc)
    /\ IF rp.doc \in documents
       THEN /\ chunks' = chunks \cup FlushedChunks(rp.doc, rp.added)
            /\ next_chunk_id' = next_chunk_id + rp.added
            /\ processing_status' = [processing_status EXCEPT ![rp.doc] = "indexed"]
            /\ rp' = [NoRun EXCEPT !.doc = rp.doc, !.result = "indexed"]
       ELSE /\ rp' = [NoRun EXCEPT !.doc = rp.doc, !.result = "raised"]
            /\ UNCHANGED <<chunks, processing_status, next_chunk_id>>
    /\ UNCHANGED <<citeVars, pc, retrVars, reqVars, sources, documents,
                   db_citations, beats, n_background>>
    /\ UNCHANGED <<validation, auxVars>>

\* delete_source: the source, its documents and their chunks are deleted in
\* one transaction, which is rolled back when a foreign key refuses it
DeleteSource(s) ==
    /\ s \in sources
    /\ LET doomed_docs == { d \in documents : DocSource(d) = s }
           doomed_chunks == { c \in chunks : c.document_id \in doomed_docs }
       IN  IF DeleteAllowed(doomed_chunks, doomed_docs, {s})
           THEN /\ sources' = sources \ {s}
                /\ documents' = documents \ doomed_docs
                /\ chunks' = chunks \ doomed_chunks
                /\ processing_status' =
                      [d \in DocIds |-> IF d \in doomed_docs THEN None
                                         ELSE processing_status[d]]
           ELSE UNCHANGED <<sources, documents, chunks, processing_status>>
    /\ UNCHANGED <<citeVars, pc, retrVars, reqVars, db_citations, beats, procVars>>
    /\ UNCHANGED <<validation, auxVars>>

InitialChunks ==
    { [id |-> 1, document_id |-> "d1", sequence_number |-> 0],
      [id |-> 2, document_id |-> "d1", sequence_number |-> 1],
      [id |-> 3, document_id |-> "d2", sequence_number |-> 0] }

Init ==
    /\ CiteIdle
    /\ pc = "idle"
    /\ chunks = InitialChunks
    /\ similar_chunks = <<>>
    /\ retrieval = NoRetrieval
    /\ max_context_chunks = 2
    /\ similarity_threshold = 90
    /\ RequestIdle
    /\ sources = {"s1", "s2"}
    /\ documents = {"d1", "d2"}
    /\ processing_status = [d \in DocIds |-> IF d = "d3" THEN None ELSE "indexed"]
    /\ db_citations = {}
    /\ beats = {}
    /\ ProcIdle
    /\ AuxIdle

Conversation == \E ep \in EpisodeIds \cup {None} : StartRequest(ep)

Retrieve == \E s \in {None, "s1"} : RetrieveContext(s)

RecordBeat == \E n \in {0, 2} : CreateBeat(n)

Reprocess == \E d \in DocIds : ReprocessDocument(d)

Delete == \E s \in SourceIds : DeleteSource(s)

Next ==
    \/ Conversation
    \/ Retrieve
    \/ BuildPrompt
    \/ GenerateLLMResponse
    \/ ExtractCitations
    \/ ValidateCitationCoverage
    \/ TrackCitations
    \/ RecordBeat
    \/ Reprocess
    \/ ProcessChunksBegin
    \/ ProcessChunkEmbed
    \/ ProcessChunksFinish
    \/ Delete

Spec == Init /\ [][Next]_vars

(***************************************************************************)
(* CitationTracker: validation of citations.                               *)
(***************************************************************************)
\* sources.reliability_score
SourceReliability(s) == IF s = "s1" THEN Rat(1, 1) ELSE Rat(1, 2)

\* chunks.content
ChunkContent(c) ==
    IF c.document_id = "d1"
    THEN <<"K","a","y"," ","l","e","d">>
    ELSE <<"B","o","r","n"," ","i","n"," ","1","8","0","9">>

\* the first position >= i, counted from 1, where sub occurs in text; 0 if none
RECURSIVE FirstOccurrence(_, _, _)
FirstOccurrence(text, sub, i) ==
    IF i + Len(sub) - 1 > Len(text) THEN 0
    ELSE IF SubSeq(text, i, i + Len(sub) - 1) = sub THEN i
    ELSE FirstOccurrence(text, sub, i + 1)

\* text.find(sub), positions counted from 0
find(text, sub) == FirstOccurrence(text, sub, 1) - 1

\* text.strip()
RECURSIVE strip(_)
strip(text) ==
    IF text = <<>> THEN text
    ELSE IF Head(text) \in Whitespace THEN strip(Tail(text))
    ELSE IF text[Len(text)] \in Whitespace THEN strip(SubSeq(text, 1, Len(text) - 1))
    ELSE text

\* the words of text.split() from position i on; word is the run of
\* non-blank characters read so far
RECURSIVE Words(_, _, _)
Words(text, i, word) ==
    IF i > Len(text) THEN (IF word = <<>> THEN {} ELSE {word})
    ELSE IF text[i] \in Whitespace
         THEN (IF word = <<>> THEN {} ELSE {word}) \cup Words(text, i + 1, <<>>)
         ELSE Words(text, i + 1, Append(word, text[i]))

\* set(text.split())
WordSet(text) == Words(text, 1, <<>>)

ClaimWindow == 200

_extract_claim_context(text, citation_text) ==
    LET citation_pos == find(text, citation_text)
        start == Max(0, citation_pos - ClaimWindow)
        end == Min(Len(text), citation_pos + Len(citation_text) + ClaimWindow)
    IN  IF citation_pos = -1 THEN <<>>
        ELSE strip(SubSeq(text, start + 1, end))

\* word-overlap ratio of claim and source content
_calculate_claim_similarity(claim, source_content) ==
    LET claim_words == WordSet(lower(claim))
        source_words == WordSet(lower(source_content))
    IN  IF claim_words = {} \/ source_words = {} THEN Rat(0, 1)
        ELSE Rat(Cardinality(claim_words \cap source_words),
                 Cardinality(claim_words \cup source_words))

\* re.findall(r'"([^"]*)"', claim), from position i
RECURSIVE Quotes(_, _)
Quotes(claim, i) ==
    LET opens == { k \in i..Len(claim) : claim[k] = "\"" }
    IN  IF opens = {} THEN <<>>
        ELSE LET o == CHOOSE k \in opens : \A m \in opens : k <= m
                 closes == { k \in (o + 1)..Len(claim) : claim[k] = "\"" }
             IN  IF closes = {} THEN <<>>
                 ELSE LET c == CHOOSE k \in closes : \A m \in closes : k <= m
                      IN  <<SubSeq(claim, o + 1, c - 1)>> \o Quotes(claim, c + 1)

_check_direct_quote(claim, source_content) ==
    LET quotes == Quotes(claim, 1)
    IN  \E n \in 1..Len(quotes) : Contains(lower(source_content), lower(quotes[n]))

\* _calculate_accuracy_score with the weight of similarity moved to the quote
_calculate_accuracy_score_reweighted(similarity_score, quote_match, source_reliability, confidence_score) ==
    LET quote_score == IF quote_match THEN Rat(1, 1) ELSE Rat(0, 1)
        accuracy == RatAdd(RatAdd(RatMul(Rat(3, 10), similarity_score),
                                  RatMul(Rat(4, 10), quote_score)),
                           RatAdd(RatMul(Rat(2, 10), source_reliability),
                                  RatMul(Rat(1, 10), confidence_score)))
    IN  RatMin(accuracy, Rat(1, 1))

_calculate_accuracy_score(similarity_score, quote_match, source_reliability, confidence_score) ==
    LET quote_score == IF quote_match THEN Rat(1, 1) ELSE Rat(0, 1)
        accuracy == RatAdd(RatAdd(RatMul(Rat(4, 10), similarity_score),
                                  RatMul(Rat(3, 10), quote_score)),
                           RatAdd(RatMul(Rat(2, 10), source_reliability),
                                  RatMul(Rat(1, 10), confidence_score)))
    IN  RatMin(accuracy, Rat(1, 1))

\* accuracy at which a citation counts as valid
ValidThreshold == Rat(7, 10)

FailedReport(error) == [valid |-> FALSE, error |-> error, confidence |-> Rat(0, 1)]

\* validate_citation_accuracy raising when the chunk is missing
validate_citation_accuracy_raising(citation, text, chs) ==
    LET found == { c \in chs : c.id = citation.chunk_id }
    IN  IF found = {}
        THEN [raised |-> TRUE, report |-> FailedReport("Source chunk not found"),
              citation |-> citation]
        ELSE LET chunk == CHOOSE c \in found : TRUE
                 claim_context == _extract_claim_context(text, citation.citation_text)
                 similarity_score == _calculate_claim_similarity(claim_context, ChunkContent(chunk))
                 quote_match == _check_direct_quote(claim_context, ChunkContent(chunk))
                 source_reliability == SourceReliability(DocSource(chunk.document_id))
                 accuracy_score == _calculate_accuracy_score(similarity_score, quote_match,
                                       source_reliability, citation.confidence_score)
                 validation_report ==
                     [valid |-> RatLeq(ValidThreshold, accuracy_score),
                      accuracy_score |-> accuracy_score,
                      similarity_score |-> similarity_score,
                      quote_match |-> quote_match,
                      source_reliability |-> source_reliability,
                      confidence |-> citation.confidence_score,
                      claim_context |-> claim_context]
             IN  [raised |-> FALSE, report |-> validation_report,
                  citation |-> [citation EXCEPT !.validation_score = accuracy_score,
                                                !.validation_metadata = <<validation_report>>]]

\* validate_citation_accuracy: the report returned and the citation object
\* after the call; the call never raises
validate_citation_accuracy(citation, text, chs) ==
    LET found == { c \in chs : c.id = citation.chunk_id }
    IN  IF found = {}
        THEN [raised |-> FALSE, report |-> FailedReport("Source chunk not found"),
              citation |-> citation]
        ELSE LET chunk == CHOOSE c \in found : TRUE
                 claim_context == _extract_claim_context(text, citation.citation_text)
                 similarity_score == _calculate_claim_similarity(claim_context, ChunkContent(chunk))
                 quote_match == _check_direct_quote(claim_context, ChunkContent(chunk))
                 source_reliability == SourceReliability(DocSource(chunk.document_id))
                 accuracy_score == _calculate_accuracy_score(similarity_score, quote_match,
                                       source_reliability, citation.confidence_score)
                 validation_report ==
                     [valid |-> RatLeq(ValidThreshold, accuracy_score),
                      accuracy_score |-> accuracy_score,
                      similarity_score |-> similarity_score,
                      quote_match |-> quote_match,
                      source_reliability |-> source_reliability,
                      confidence |-> citation.confidence_score,
                      claim_context |-> claim_context]
             IN  [raised |-> FALSE, report |-> validation_report,
                  citation |-> [citation EXCEPT !.validation_score = accuracy_score,
                                                !.validation_metadata = <<validation_report>>]]

\* the rows in the order of their ids
RECURSIVE OrderById(_)
OrderById(rows) ==
    IF rows = {} THEN <<>>
    ELSE LET first == CHOOSE r \in rows : \A q \in rows : r.id <= q.id
         IN  <<first>> \o OrderById(rows \ {first})

\* beat.lincoln_response of the beat of a citation, "" without a beat
BeatResponse(citation, bts) ==
    LET found == { b \in bts : b.id = citation.beat_id }
    IN  IF found = {} THEN <<>> ELSE (CHOOSE b \in found : TRUE).lincoln_response

\* the loop of bulk_validate_citations from the i-th citation on; cits is the
\* table, results the validation_results so far
RECURSIVE BulkFrom(_, _, _, _, _, _)
BulkFrom(todo, i, cits, results, bts, chs) ==
    IF i > Len(todo) THEN [raised |-> FALSE, citations |-> cits, results |-> results]
    ELSE LET citation == todo[i]
             text == BeatResponse(citation, bts)
         IN  IF text = <<>>
             THEN BulkFrom(todo, i + 1, cits, results, bts, chs)
             ELSE LET v == validate_citation_accuracy(citation, text, chs)
                  IN  IF v.raised
                      THEN [raised |-> TRUE, citations |-> cits, results |-> results]
                      ELSE BulkFrom(todo, i + 1,
                                    (cits \ {citation}) \cup {v.citation},
                                    Append(results, [citation_id |-> citation.id,
                                                     validation |-> v.report]),
                                    bts, chs)

bulk_validate_citations(episode, cits, bts, chs) ==
    LET todo == OrderById({ c \in cits : c.episode_id = episode })
        b == BulkFrom(todo, 1, cits, <<>>, bts, chs)
    IN  [raised |-> b.raised,
         citations |-> b.citations,
         report |-> [episode_id |-> episode,
                     total_citations |-> Len(todo),
                     validated_citations |-> Len(b.results),
                     results |-> b.results]]

\* get_episode_citation_report, lines 157-170: the counts of the report
get_episode_citation_report(episode, cits) ==
    LET of_episode == { c \in cits : c.episode_id = episode }
    IN  [episode_id |-> episode,
         total_citations |-> Cardinality(of_episode),
         valid_citations |->
             Cardinality({ c \in of_episode :
                             /\ c.validation_score # NoScore
                             /\ c.validation_score.num # 0
                             /\ RatLeq(ValidThreshold, c.validation_score) })]

\* the response texts handed to the tracker
ValidationTexts ==
    { <<"K","a","y"," ","l","e","d"," ","s","o"," ","\"","K","a","y"," ","l","e","d","\"",
        " ","o","k"," ">> \o Marker(<<"k","a","y"," ","b","i","o">>),
      <<"B","o","r","n"," ","i","n"," ","1","8","0","9"," ">> \o Marker(<<"A","b","e"," ","B","i","o">>),
      Marker(<<"A","B","E">>) }

\* the chunks of the table as a context list, in the order of their ids
ChunkList(chs) ==
    LET ordered == OrderById(chs)
    IN  [i \in 1..Len(ordered) |->
            MkChunk(ordered[i].id, ordered[i].document_id, DocSource(ordered[i].document_id))]

\* track_citations called with the citations extracted from text and a beat id
TrackCitationsFor(ep, text, beat) ==
    /\ pc = "idle"
    /\ beat = NoBeat \/ \E b \in beats : b.id = beat
    /\ LET cits == _extract_citations(text, ChunkList(chunks))
           base == Cardinality(db_citations)
           rows == { DbCitation(cits[i], base + i, ep, beat) : i \in 1..Len(cits) }
       IN  /\ base + Len(cits) <= MaxStored
           /\ IF ForeignKeysHold(rows, chunks, documents, sources)
              THEN /\ db_citations' = db_citations \cup rows
                   /\ validation' = [op |-> "track", raised |-> FALSE]
              ELSE /\ validation' = [op |-> "track", raised |-> TRUE]
                   /\ UNCHANGED db_citations
    /\ UNCHANGED <<citeVars, pc, chunks, retrVars, reqVars, sources, documents,
                   processing_status, beats, procVars>>
    /\ UNCHANGED auxVars

\* validate_citation_accuracy called on a citation loaded from the table
ValidateStored(citation, text) ==
    /\ pc = "idle"
    /\ citation \in db_citations
    /\ LET v == validate_citation_accuracy(citation, text, chunks)
       IN  /\ db_citations' = (db_citations \ {citation}) \cup {v.citation}
           /\ validation' = [op |-> "validate", raised |-> v.raised, report |-> v.report,
                              before |-> citation, after |-> v.citation]
    /\ UNCHANGED <<citeVars, pc, chunks, retrVars, reqVars, sources, documents,
                   processing_status, beats, procVars>>
    /\ UNCHANGED auxVars

\* the chunks of three documents, one per source
ValidationChunks ==
    InitialChunks \cup { [id |-> 4, document_id |-> "d3", sequence_number |-> 0] }

\* the citation objects extracted from the texts against the chunks of the
\* three documents and never tracked
ExtractedCitations ==
    UNION { LET cits == _extract_citations(text, ChunkList(ValidationChunks))
            IN  { DbCitation(cits[i], 0, None, NoBeat) : i \in 1..Len(cits) } :
            text \in ValidationTexts }

\* validate_citation_accuracy called on a citation object that is not in the table
ValidateExtracted(citation, text) ==
    /\ pc = "idle"
    /\ LET v == validate_citation_accuracy(citation, text, chunks)
       IN  validation' = [op |-> "validate", raised |-> v.raised, report |-> v.report,
                          before |-> citation, after |-> v.citation]
    /\ UNCHANGED <<citeVars, pc, chunks, retrVars, reqVars, dbVars, procVars>>
    /\ UNCHANGED auxVars

BulkValidateCitations(ep) ==
    /\ pc = "idle"
    /\ LET b == bulk_validate_citations(ep, db_citations, beats, chunks)
       IN  /\ db_citations' = b.citations
           /\ validation' = [op |-> "bulk", raised |-> b.raised, report |-> b.report]
    /\ UNCHANGED <<citeVars, pc, chunks, retrVars, reqVars, sources, documents,
                   processing_status, beats, procVars>>
    /\ UNCHANGED auxVars

GetEpisodeCitationReport(ep) ==
    /\ pc = "idle"
    /\ validation' = [op |-> "report", raised |-> FALSE,
                       report |-> get_episode_citation_report(ep, db_citations)]
    /\ UNCHANGED <<citeVars, pc, chunks, retrVars, reqVars, dbVars, procVars>>
    /\ UNCHANGED auxVars

\* two beats of episode e1
InitialBeats ==
    { [id |-> 1, episode_id |-> "e1", sequence_number |-> 1,
       lincoln_response |->
           <<"K","a","y"," ","l","e","d"," ","s","o"," ","\"","K","a","y"," ","l","e","d","\"",
             " ","o","k"," ">> \o Marker(<<"k","a","y"," ","b","i","o">>)],
      [id |-> 2, episode_id |-> "e1", sequence_number |-> 2,
       lincoln_response |->
           <<"B","o","r","n"," ","i","n"," ","1","8","0","9"," ">>
               \o Marker(<<"A","b","e"," ","B","i","o">>)] }

InitValidate ==
    /\ CiteIdle
    /\ pc = "idle"
    /\ chunks = ValidationChunks
    /\ similar_chunks = <<>>
    /\ retrieval = NoRetrieval
    /\ max_context_chunks = 2
    /\ similarity_threshold = 90
    /\ RequestIdle
    /\ sources = SourceIds
    /\ documents = DocIds
    /\ processing_status = [d \in DocIds |-> "indexed"]
    /\ db_citations = {}
    /\ beats = InitialBeats
    /\ ProcIdle
    /\ AuxIdle

\* the citations of the response of a beat are tracked with the beat id,
\* those of a response without beat with none
Track ==
    \/ \E b \in beats : TrackCitationsFor(b.episode_id, b.lincoln_response, b.id)
    \/ \E ep \in EpisodeIds : TrackCitationsFor(ep, Marker(<<"A","B","E">>), NoBeat)

ValidateOne == \E citation \in db_citations, b \in beats :
                   ValidateStored(citation, b.lincoln_response)

ValidateLoose == \E citation \in ExtractedCitations, b \in beats :
                     ValidateExtracted(citation, b.lincoln_response)

BulkValidate == \E ep \in EpisodeIds : BulkValidateCitations(ep)

Report == \E ep \in EpisodeIds : GetEpisodeCitationReport(ep)

NextValidate ==
    \/ Track
    \/ ValidateOne
    \/ ValidateLoose
    \/ BulkValidate
    \/ Report
    \/ Delete

SpecValidate == InitValidate /\ [][NextValidate]_vars

\* bulk_validate_citations called for the episode of a conversation request
\* that has returned
BulkValidateAfterConversation ==
    /\ pc = "done"
    /\ episode_id # None
    /\ validation = NoValidation
    /\ LET b == bulk_validate_citations(episode_id, db_citations, beats, chunks)
       IN  /\ db_citations' = b.citations
           /\ validation' = [op |-> "bulk", raised |-> b.raised, report |-> b.report]
    /\ UNCHANGED <<citeVars, pc, chunks, retrVars, reqVars, sources, documents,
                   processing_status, beats, procVars>>
    /\ UNCHANGED auxVars

NextAudit == Next \/ BulkValidateAfterConversation

\* conversation requests followed by a bulk validation of their episode
SpecAudit == Init /\ [][NextAudit]_vars

(***************************************************************************)
(* TextChunker (services/text_chunker.py).  Positions are counted from 0   *)
(* and a span [start, end) excludes its end, as in Python.                 *)
(***************************************************************************)
\* text[a:b] for 0 <= a
Slice(text, a, b) == SubSeq(text, a + 1, Min(b, Len(text)))

\* the first position >= i, counted from 1, whose character is not in class
RECURSIVE SkipWhile(_, _, _)
SkipWhile(text, i, class) ==
    IF i > Len(text) \/ text[i] \notin class THEN i
    ELSE SkipWhile(text, i + 1, class)

Terminators == {".", "!", "?"}

\* sentence_endings.finditer(text) from position p, counted from 1: the spans
\* of the non-overlapping matches of [.!?]+\s+, left to right
RECURSIVE sentence_endings(_, _)
sentence_endings(text, p) ==
    IF p > Len(text) THEN <<>>
    ELSE IF text[p] \notin Terminators THEN sentence_endings(text, p + 1)
    ELSE LET j == SkipWhile(text, p, Terminators)
             k == SkipWhile(text, j, Whitespace)
         IN  IF k > j
             THEN <<[start |-> p - 1, end |-> k - 1]>> \o sentence_endings(text, k)
             ELSE sentence_endings(text, j)

\* the last position in lo..hi, counted from 1, that holds a newline; 0 if none
RECURSIVE LastNewline(_, _, _)
LastNewline(text, lo, hi) ==
    IF hi < lo THEN 0
    ELSE IF text[hi] = "\n" THEN hi
    ELSE LastNewline(text, lo, hi - 1)

\* paragraph_breaks.finditer(text) from position p, counted from 1: the spans
\* of the non-overlapping matches of \n\s*\n, left to right
RECURSIVE paragraph_breaks(_, _)
paragraph_breaks(text, p) ==
    IF p > Len(text) THEN <<>>
    ELSE IF text[p] # "\n" THEN paragraph_breaks(text, p + 1)
    ELSE LET k == SkipWhile(text, p + 1, Whitespace)
             m == LastNewline(text, p + 1, k - 1)
         IN  IF m > 0
             THEN <<[start |-> p - 1, end |-> m]>> \o paragraph_breaks(text, m + 1)
             ELSE paragraph_breaks(text, p + 1)

\* pattern.split(text): the pieces of text between the matches, from position
\* from on
RECURSIVE SplitAt(_, _, _)
SplitAt(text, matches, from) ==
    IF matches = <<>> THEN <<Slice(text, from, Len(text))>>
    ELSE <<Slice(text, from, Head(matches).start)>>
             \o SplitAt(text, Tail(matches), Head(matches).end)

\* min(matches, key=lambda m: abs(m.start() - target_pos)): the first of the
\* matches nearest to target_pos
RECURSIVE ClosestMatch(_, _, _)
ClosestMatch(matches, target_pos, best) ==
    IF matches = <<>> THEN best
    ELSE LET m == Head(matches)
             dm == IF m.start >= target_pos THEN m.start - target_pos
                   ELSE target_pos - m.start
             db == IF best.start >= target_pos THEN best.start - target_pos
                   ELSE target_pos - best.start
         IN  ClosestMatch(Tail(matches), target_pos, IF dm < db THEN m ELSE best)

ParagraphLookBehind == 200
ParagraphLookAhead == 100
SentenceLookBehind == 100
SentenceLookAhead == 50
WordLookBehind == 50

_find_break_point(text, start, end) ==
    LET plo == Max(0, end - ParagraphLookBehind)
        paragraph_matches ==
            paragraph_breaks(Slice(text, plo, end + ParagraphLookAhead), 1)
        slo == Max(0, end - SentenceLookBehind)
        sentence_matches ==
            sentence_endings(Slice(text, slo, end + SentenceLookAhead), 1)
        blanks == { i \in (Max(start, end - WordLookBehind) + 1)..end :
                        text[i + 1] \in Whitespace }
    IN  IF paragraph_matches # <<>>
        THEN plo + ClosestMatch(Tail(paragraph_matches), end - plo,
                                Head(paragraph_matches)).end
        ELSE IF sentence_matches # <<>>
        THEN slo + ClosestMatch(Tail(sentence_matches), end - slo,
                                Head(sentence_matches)).end
        ELSE IF blanks # {}
        THEN CHOOSE i \in blanks : \A j \in blanks : j <= i
        ELSE end

\* [chunk.strip() for chunk in chunks if chunk.strip()]
RECURSIVE StripAll(_)
StripAll(cs) ==
    IF cs = <<>> THEN <<>>
    ELSE IF strip(Head(cs)) = <<>> THEN StripAll(Tail(cs))
    ELSE <<strip(Head(cs))>> \o StripAll(Tail(cs))

\* what a chunking call comes to: it returns chunks, it raises, or its loop
\* never ends
Returned(cs) == [outcome |-> "returned", chunks |-> cs]
Raised == [outcome |-> "raised", chunks |-> <<>>]
Hangs == [outcome |-> "hangs", chunks |-> <<>>]

\* the while loop of _recursive_character_chunking from position start on with
\* the chunks appended so far; seen holds the values start has had, and the
\* loop, whose only control state is start, never ends once a value recurs
RECURSIVE ChunkLoop(_, _, _, _, _, _)
ChunkLoop(text, chunk_size, chunk_overlap, start, seen, cs) ==
    IF start \in seen THEN Hangs
    ELSE IF start >= Len(text) THEN Returned(StripAll(cs))
    ELSE LET end == start + chunk_size
         IN  IF end >= Len(text)
             THEN Returned(StripAll(Append(cs, Slice(text, start, Len(text)))))
             ELSE LET break_point == _find_break_point(text, start, end)
                  IN  ChunkLoop(text, chunk_size, chunk_overlap,
                                Max(break_point - chunk_overlap, 0),
                                seen \cup {start},
                                Append(cs, Slice(text, start, break_point)))

_recursive_character_chunking(text, chunk_size, chunk_overlap) ==
    IF Len(text) <= chunk_size THEN Returned(<<text>>)
    ELSE ChunkLoop(text, chunk_size, chunk_overlap, 0, {}, <<>>)

\* text.replace(old, new) from position i, counted from 1
RECURSIVE replace(_, _, _, _)
replace(text, old, new, i) ==
    IF i > Len(text) THEN <<>>
    ELSE IF i + Len(old) - 1 <= Len(text) /\ SubSeq(text, i, i + Len(old) - 1) = old
    THEN new \o replace(text, old, new, i + Len(old))
    ELSE <<text[i]>> \o replace(text, old, new, i + 1)

abbreviations ==
    << <<"M","r",".">>, <<"M","r","s",".">>, <<"D","r",".">>, <<"P","r","o","f",".">>,
       <<"G","e","n",".">>, <<"C","o","l",".">>, <<"C","a","p","t",".">>,
       <<"L","t",".">>, <<"S","g","t",".">> >>

Digit(i) == <<"0","1","2","3","4","5","6","7","8","9">>[i + 1]

\* f'__ABBR_{i}__' for the abbreviation of index i, counted from 0
Placeholder(i) == <<"_","_","A","B","B","R","_">> \o <<Digit(i)>> \o <<"_","_">>

\* the abbreviations from index i on replaced by their placeholders, in order
RECURSIVE HideAbbreviations(_, _)
HideAbbreviations(text, i) ==
    IF i >= Len(abbreviations) THEN text
    ELSE HideAbbreviations(replace(text, abbreviations[i + 1], Placeholder(i), 1), i + 1)

\* the placeholders from index i on replaced by their abbreviations, in order
RECURSIVE RestoreAbbreviations(_, _)
RestoreAbbreviations(text, i) ==
    IF i >= Len(abbreviations) THEN text
    ELSE RestoreAbbreviations(replace(text, Placeholder(i), abbreviations[i + 1], 1),
                              i + 1)

_split_sentences(text) ==
    LET temp_text == HideAbbreviations(text, 0)
        pieces == SplitAt(temp_text, sentence_endings(temp_text, 1), 0)
    IN  StripAll([i \in 1..Len(pieces) |-> RestoreAbbreviations(pieces[i], 0)])

\* sum(len(s) for s in ss)
RECURSIVE SumLen(_)
SumLen(ss) == IF ss = <<>> THEN 0 ELSE Len(Head(ss)) + SumLen(Tail(ss))

\* sep.join(ss)
RECURSIVE join(_, _)
join(sep, ss) ==
    IF ss = <<>> THEN <<>>
    ELSE IF Len(ss) = 1 THEN Head(ss)
    ELSE Head(ss) \o sep \o join(sep, Tail(ss))

\* the loop of _get_overlap_sentences over reversed(sentences[1..n]) with the
\* sentences taken so far
RECURSIVE OverlapFrom(_, _, _, _, _)
OverlapFrom(sentences, n, overlap_chars, char_count, overlap_sentences) ==
    IF n = 0 THEN overlap_sentences
    ELSE IF char_count + Len(sentences[n]) <= overlap_chars
    THEN OverlapFrom(sentences, n - 1, overlap_chars, char_count + Len(sentences[n]),
                     <<sentences[n]>> \o overlap_sentences)
    ELSE overlap_sentences

_get_overlap_sentences(sentences, overlap_chars) ==
    IF sentences = <<>> \/ overlap_chars <= 0 THEN <<>>
    ELSE OverlapFrom(sentences, Len(sentences), overlap_chars, 0, <<>>)

\* the loop of _sentence_aware_chunking over the remaining sentences
RECURSIVE SentenceLoop(_, _, _, _, _, _)
SentenceLoop(sentences, chunk_size, chunk_overlap, cs, current_chunk, current_size) ==
    IF sentences = <<>>
    THEN IF current_chunk # <<>> THEN Append(cs, join(<<" ">>, current_chunk)) ELSE cs
    ELSE LET sentence == Head(sentences)
         IN  IF current_size + Len(sentence) > chunk_size /\ current_chunk # <<>>
             THEN LET next_chunk ==
                          _get_overlap_sentences(current_chunk, chunk_overlap)
                              \o <<sentence>>
                  IN  SentenceLoop(Tail(sentences), chunk_size, chunk_overlap,
                                   Append(cs, join(<<" ">>, current_chunk)),
                                   next_chunk, SumLen(next_chunk))
             ELSE SentenceLoop(Tail(sentences), chunk_size, chunk_overlap, cs,
                               Append(current_chunk, sentence),
                               current_size + Len(sentence))

_sentence_aware_chunking(text, chunk_size, chunk_overlap) ==
    Returned(SentenceLoop(_split_sentences(text), chunk_size, chunk_overlap,
                          <<>>, <<>>, 0))

ParagraphJoin == <<"\n", "\n">>

\* the loop of _paragraph_based_chunking over the remaining paragraphs
RECURSIVE ParagraphLoop(_, _, _, _, _, _)
ParagraphLoop(paragraphs, chunk_size, chunk_overlap, cs, current_chunk, current_size) ==
    IF paragraphs = <<>>
    THEN Returned(IF current_chunk # <<>>
                  THEN Append(cs, join(ParagraphJoin, current_chunk)) ELSE cs)
    ELSE LET paragraph == Head(paragraphs)
             paragraph_size == Len(paragraph)
             closed == IF current_chunk # <<>>
                       THEN Append(cs, join(ParagraphJoin, current_chunk)) ELSE cs
         IN  IF paragraph_size > chunk_size
             THEN LET sub == _recursive_character_chunking(paragraph, chunk_size,
                                                           chunk_overlap)
                  IN  IF sub.outcome # "returned" THEN sub
                      ELSE ParagraphLoop(Tail(paragraphs), chunk_size, chunk_overlap,
                                         closed \o sub.chunks, <<>>, 0)
             ELSE IF current_size + paragraph_size > chunk_size /\ current_chunk # <<>>
             THEN LET overlap_text == current_chunk[Len(current_chunk)]
                  IN  IF chunk_overlap > 0 /\ Len(overlap_text) <= chunk_overlap
                      THEN ParagraphLoop(Tail(paragraphs), chunk_size, chunk_overlap,
                                         closed, <<overlap_text, paragraph>>,
                                         Len(overlap_text) + paragraph_size)
                      ELSE ParagraphLoop(Tail(paragraphs), chunk_size, chunk_overlap,
                                         closed, <<paragraph>>, paragraph_size)
             ELSE ParagraphLoop(Tail(paragraphs), chunk_size, chunk_overlap, cs,
                                Append(current_chunk, paragraph),
                                current_size + paragraph_size + Len(ParagraphJoin))

_paragraph_based_chunking(text, chunk_size, chunk_overlap) ==
    ParagraphLoop(StripAll(SplitAt(text, paragraph_breaks(text, 1), 0)),
                  chunk_size, chunk_overlap, <<>>, <<>>, 0)

Upper ==
    {"A","B","C","D","E","F","G","H","I","J","K","L","M",
     "N","O","P","Q","R","S","T","U","V","W","X","Y","Z"}

Digits == {"0","1","2","3","4","5","6","7","8","9"}

\* ^ under re.MULTILINE at position p, counted from 1
LineStart(text, p) == p = 1 \/ text[p - 1] = "\n"

\* word, given in lower case, read at position p whatever the case
WordAt(text, p, word) ==
    /\ p + Len(word) - 1 <= Len(text)
    /\ lower(SubSeq(text, p, p + Len(word) - 1)) = word

\* \s+ at position p followed by a character of class: the position of that
\* character, 0 if there is no match
AfterBlanks(text, p, class) ==
    LET k == SkipWhile(text, p, Whitespace)
    IN  IF k > p /\ k <= Len(text) /\ text[k] \in class THEN k ELSE 0

\* ^(?:CHAPTER|SECTION|PART)\s+[IVX\d]+ under re.IGNORECASE
ChapterAt(text, p) ==
    \E word \in { <<"c","h","a","p","t","e","r">>, <<"s","e","c","t","i","o","n">>,
                  <<"p","a","r","t">> } :
        /\ WordAt(text, p, word)
        /\ AfterBlanks(text, p + Len(word),
                       {"I","V","X","i","v","x"} \cup Digits) > 0

\* ^\d+\.\s+[A-Z]
NumberedAt(text, p) ==
    /\ text[p] \in Digits
    /\ LET j == SkipWhile(text, p, Digits)
       IN  /\ j <= Len(text)
           /\ text[j] = "."
           /\ AfterBlanks(text, j + 1, Upper) > 0

\* ^(?:Letter|Speech|Address|Proclamation|Order)\s+(?:to|from|of) under
\* re.IGNORECASE
LetterAt(text, p) ==
    \E word \in { <<"l","e","t","t","e","r">>, <<"s","p","e","e","c","h">>,
                  <<"a","d","d","r","e","s","s">>,
                  <<"p","r","o","c","l","a","m","a","t","i","o","n">>,
                  <<"o","r","d","e","r">> } :
        /\ WordAt(text, p, word)
        /\ LET k == SkipWhile(text, p + Len(word), Whitespace)
           IN  /\ k > p + Len(word)
               /\ \E prep \in { <<"t","o">>, <<"f","r","o","m">>, <<"o","f">> } :
                      WordAt(text, k, prep)

HeaderTail == 10

\* ^[A-Z][A-Z\s]{10,}$ at position p: the position after the longest match,
\* 0 if there is no match
HeaderEnd(text, p) ==
    LET k == SkipWhile(text, p + 1, Upper \cup Whitespace)
        ends == { j \in (p + 1 + HeaderTail)..k : j = Len(text) + 1 \/ text[j] = "\n" }
    IN  IF text[p] \in Upper /\ ends # {}
        THEN CHOOSE j \in ends : \A i \in ends : i <= j
        ELSE 0

\* the starts of the matches of the header pattern from position p on
RECURSIVE HeaderStarts(_, _)
HeaderStarts(text, p) ==
    IF p > Len(text) THEN {}
    ELSE IF LineStart(text, p) /\ HeaderEnd(text, p) > 0
    THEN {p - 1} \cup HeaderStarts(text, HeaderEnd(text, p))
    ELSE HeaderStarts(text, p + 1)

\* the sections between the boundaries from boundary b on
RECURSIVE SectionsFrom(_, _, _)
SectionsFrom(text, boundaries, b) ==
    IF \A c \in boundaries : c <= b THEN <<>>
    ELSE LET next == CHOOSE c \in boundaries :
                         c > b /\ \A d \in boundaries : d > b => c <= d
         IN  <<Slice(text, b, next)>> \o SectionsFrom(text, boundaries, next)

_identify_sections(text) ==
    LET boundaries ==
            {0, Len(text)}
                \cup { p - 1 : p \in { q \in 1..Len(text) :
                           /\ LineStart(text, q)
                           /\ \/ ChapterAt(text, q)
                              \/ NumberedAt(text, q)
                              \/ LetterAt(text, q) } }
                \cup HeaderStarts(text, 1)
    IN  StripAll(SectionsFrom(text, boundaries, 0))

\* the loop of _semantic_section_chunking over the remaining sections
RECURSIVE SectionLoop(_, _, _, _)
SectionLoop(sections, chunk_size, chunk_overlap, cs) ==
    IF sections = <<>> THEN Returned(cs)
    ELSE IF Len(Head(sections)) <= chunk_size
    THEN SectionLoop(Tail(sections), chunk_size, chunk_overlap,
                     Append(cs, Head(sections)))
    ELSE LET sub == _paragraph_based_chunking(Head(sections), chunk_size,
                                              chunk_overlap)
         IN  IF sub.outcome # "returned" THEN sub
             ELSE SectionLoop(Tail(sections), chunk_size, chunk_overlap,
                              cs \o sub.chunks)

_semantic_section_chunking(text, chunk_size, chunk_overlap) ==
    LET sections == _identify_sections(text)
    IN  IF Len(sections) <= 1
        THEN _paragraph_based_chunking(text, chunk_size, chunk_overlap)
        ELSE SectionLoop(sections, chunk_size, chunk_overlap, <<>>)

chunk_text(text, chunk_size, chunk_overlap, method) ==
    CASE method = "recursive_character" ->
             _recursive_character_chunking(text, chunk_size, chunk_overlap)
      [] method = "sentence_aware" ->
             _sentence_aware_chunking(text, chunk_size, chunk_overlap)
      [] method = "paragraph_based" ->
             _paragraph_based_chunking(text, chunk_size, chunk_overlap)
      [] method = "semantic_sections" ->
             _semantic_section_chunking(text, chunk_size, chunk_overlap)
      [] OTHER -> Raised

\* the pieces the documents given to the chunker are made of
ChunkSegments ==
    { <<"a","b">>, <<" ">>, <<".", " ">>, <<"\n","\n">>,
      <<"D","r","."," ">>, <<"1","."," ","A">> }

ChunkTexts ==
    { Flatten(ss) : ss \in UNION { [1..n -> ChunkSegments] : n \in 0..MaxChunkSegs } }

ChunkMethods ==
    {"recursive_character", "sentence_aware", "paragraph_based", "semantic_sections",
     "fixed"}

NoResult == [outcome |-> "none", chunks |-> <<>>]

InitChunk ==
    /\ CiteIdle
    /\ pc = "chunking"
    /\ chunks = {}
    /\ similar_chunks = <<>>
    /\ retrieval = NoRetrieval
    /\ max_context_chunks = 2
    /\ similarity_threshold = 90
    /\ RequestIdle
    /\ sources = {}
    /\ documents = {}
    /\ processing_status = [d \in DocIds |-> None]
    /\ db_citations = {}
    /\ beats = {}
    /\ ProcIdle
    /\ EmbedIdle
    /\ stream = NoStream
    /\ ingest = NoIngest
    /\ manager = NoManager
    /\ \E text \in ChunkTexts, chunk_size \in {4, 6}, chunk_overlap \in {0, 2},
          method \in ChunkMethods :
           chunking = [text |-> text, chunk_size |-> chunk_size,
                       chunk_overlap |-> chunk_overlap, method |-> method,
                       result |-> NoResult]

ChunkText ==
    /\ pc = "chunking"
    /\ chunking.result = NoResult
    /\ chunking' = [chunking EXCEPT !.result =
                        chunk_text(chunking.text, chunking.chunk_size,
                                   chunking.chunk_overlap, chunking.method)]
    /\ UNCHANGED <<citeVars, pc, chunks, retrVars, reqVars, dbVars, procVars,
                   validation, embedVars, stream, ingest, manager>>

NextChunk == ChunkText

SpecChunk == InitChunk /\ [][NextChunk]_vars

(***************************************************************************)
(* EmbeddingsService (services/embeddings.py).  Every request handler      *)
(* constructs its own instance (RAGPipeline.__init__, FileProcessor);      *)
(* the Redis cache is the one store they share.  Times are in seconds,     *)
(* token counts in tenths of a token.  An embedding vector is modelled by  *)
(* the model and the input it was computed from.                           *)
(***************************************************************************)
Requests == {"r1", "r2"}

\* settings.EMBEDDINGS_MODEL
EmbeddingsModel == "text-embedding-3-small"

\* timedelta(minutes=1), in seconds
RateWindow == 60

\* timedelta(days=7).total_seconds()
CacheTTL == 604800

\* the vector the embedding model computes for an input
Vector(input) == [model |-> EmbeddingsModel, input |-> input]

NoEntry == [set |-> FALSE, value |-> Vector(<<>>), expires |-> 0]

\* the texts handed to the service
EmbedTexts == { <<"a">>, <<"b"," ","c"," ","d">>, <<" ">>, <<>> }

\* the lists handed to generate_embeddings_batch
BatchInputs == UNION { [1..n -> EmbedTexts] : n \in 0..MaxBatch }

\* _get_cache_key: the model name and the hash of the text; the truncated
\* SHA-256 is one-to-one on the texts of the model
_get_cache_key(text) == [model |-> EmbeddingsModel, text_hash |-> text]

CacheKeys == { _get_cache_key(text) : text \in EmbedTexts }

\* _get_cached_embedding: the value json.loads returns, <<>> standing for None
\* (a Redis read that fails gives None as a missing entry does)
_get_cached_embedding(text) ==
    LET entry == redis[_get_cache_key(text)]
    IN  IF entry.set /\ now < entry.expires THEN <<entry.value>> ELSE <<>>

\* _cache_embedding: the cache after setex; writable is whether the Redis write
\* succeeds, its exception being swallowed otherwise
_cache_embedding(cache, text, embedding, writable) ==
    IF writable
    THEN [cache EXCEPT ![_get_cache_key(text)] =
              [set |-> TRUE, value |-> embedding, expires |-> now + CacheTTL]]
    ELSE cache

\* len(text.split())
RECURSIVE WordCount(_, _, _)
WordCount(text, i, inword) ==
    IF i > Len(text) THEN 0
    ELSE IF text[i] \in Whitespace THEN WordCount(text, i + 1, FALSE)
    ELSE (IF inword THEN 0 ELSE 1) + WordCount(text, i + 1, TRUE)

\* len(text.split()) * 1.3, in tenths
estimated_tokens(text) == WordCount(text, 1, FALSE) * 13

\* sum(len(text.split()) * 1.3 for text in texts), in tenths
RECURSIVE total_tokens(_)
total_tokens(texts) ==
    IF texts = <<>> THEN 0 ELSE estimated_tokens(Head(texts)) + total_tokens(Tail(texts))

\* EmbeddingsService.__init__: the rate limiting fields of a new instance; the
\* model gives the two limits small values
NewGateway ==
    [ rate_limit_requests |-> 1, rate_limit_tokens |-> 30,
      request_timestamps |-> <<>>, token_count |-> 0, token_reset_time |-> now ]

NoGateway ==
    [ rate_limit_requests |-> 0, rate_limit_tokens |-> 0,
      request_timestamps |-> <<>>, token_count |-> 0, token_reset_time |-> 0 ]

\* the request has no EmbeddingsService yet
NoCall == [pc |-> "none"]

\* the request has its service and no call in progress
IdleCall == [pc |-> "idle"]

\* [ts for ts in request_timestamps if now - ts < timedelta(minutes=1)]
RECURSIVE RecentTimestamps(_, _)
RecentTimestamps(timestamps, t) ==
    IF timestamps = <<>> THEN <<>>
    ELSE IF t - Head(timestamps) < RateWindow
    THEN <<Head(timestamps)>> \o RecentTimestamps(Tail(timestamps), t)
    ELSE RecentTimestamps(Tail(timestamps), t)

\* the token counter is reset when its window, as of time t, is over
ResetTokens(g, t) ==
    IF t - g.token_reset_time > RateWindow
    THEN [g EXCEPT !.token_count = 0, !.token_reset_time = t]
    ELSE g

\* the external request of call c is sent: the embedding model receives input
Send(r, c, input) ==
    /\ external_requests' =
           Append(external_requests,
                  [time |-> now, by |-> r, call |-> c.id, input |-> input,
                   tokens |-> total_tokens(input)])
    /\ call' = [call EXCEPT ![r] = [c EXCEPT !.pc = "calling", !.input = input,
                                               !.externals = c.externals + 1]]

\* the call suspends in asyncio.sleep(sleep_time)
Sleep(r, c, pc_, sleep_time) ==
    /\ call' = [call EXCEPT ![r] = [c EXCEPT !.pc = pc_, !.wake = now + sleep_time]]
    /\ UNCHANGED external_requests

\* the call ends: what it came to is appended to the history
Finish(r, c, g, outcome, vectors) ==
    /\ embed_history' =
           Append(embed_history,
                  [ id |-> c.id, by |-> r, op |-> c.op, texts |-> c.texts,
                    batch_size |-> c.batch_size, outcome |-> outcome,
                    vectors |-> vectors, hits |-> c.hits, externals |-> c.externals,
                    stores |-> c.stores, before |-> c.before, after |-> g,
                    seen |-> c.seen, started |-> c.started, ended |-> now ])
    /\ call' = [call EXCEPT ![r] = IdleCall]

\* a call of operation op on texts begins
NewCall(r, op, texts, batch_size) ==
    [ pc |-> "running", id |-> Len(embed_history) + Cardinality({ q \in DOMAIN call :
                                      call[q].pc \notin {"none", "idle"} }) + 1,
      op |-> op, texts |-> texts, batch_size |-> batch_size, i |-> 0,
      local_now |-> now, wake |-> 0, input |-> <<>>, uncached_indices |-> <<>>,
      batch_embeddings |-> <<>>, embeddings |-> <<>>, hits |-> {}, externals |-> 0,
      stores |-> 0, before |-> gateway[r], seen |-> Len(embed_history),
      started |-> now ]

\* calls begun so far
CallsStarted ==
    Len(embed_history)
        + Cardinality({ q \in DOMAIN call : call[q].pc \notin {"none", "idle"} })

\* _update_rate_limits
_update_rate_limits(g, text) ==
    [g EXCEPT !.request_timestamps = Append(@, now),
              !.token_count = @ + estimated_tokens(text)]

\* for text in uncached_texts: self._update_rate_limits(text)
RECURSIVE UpdateEach(_, _)
UpdateEach(g, texts) ==
    IF texts = <<>> THEN g
    ELSE UpdateEach(_update_rate_limits(g, Head(texts)), Tail(texts))

\* _cache_embedding for the texts and the embeddings of one response
RECURSIVE CacheEach(_, _, _, _)
CacheEach(cache, texts, data, writable) ==
    IF texts = <<>> THEN cache
    ELSE CacheEach(_cache_embedding(cache, Head(texts), Head(data), writable),
                   Tail(texts), Tail(data), writable)

\* the entry of batch_embeddings of a text that is not cached (None)
Missing == [model |-> None, input |-> <<>>]

\* batch_embeddings[uncached_indices[k]] = response.data[k].embedding for all
\* k; the indices are counted from 0
FillUncached_in_response_order(batch_embeddings, uncached_indices, data) ==
    [ j \in 1..Len(batch_embeddings) |->
          IF j <= Len(data) THEN data[j] ELSE batch_embeddings[j] ]

FillUncached(batch_embeddings, uncached_indices, data) ==
    [ j \in 1..Len(batch_embeddings) |->
          IF \E k \in 1..Len(uncached_indices) : uncached_indices[k] = j - 1
          THEN data[CHOOSE k \in 1..Len(uncached_indices) : uncached_indices[k] = j - 1]
          ELSE batch_embeddings[j] ]

\* the token test of _check_rate_limits, made with the time read at the
\* beginning of the check, and the request to the embedding model
CheckTokens(r, c, g0) ==
    LET g == ResetTokens(g0, c.local_now)
        sleep_time == RateWindow - (c.local_now - g.token_reset_time)
    IN  /\ gateway' = [gateway EXCEPT ![r] = g]
        /\ IF /\ g.token_count + estimated_tokens(c.texts[1]) > g.rate_limit_tokens
              /\ sleep_time > 0
           THEN Sleep(r, c, "sleep_tokens", sleep_time)
           ELSE Send(r, c, c.input)

\* generate_embedding up to its first suspension
GenerateEmbedding(r, text) ==
    /\ call[r].pc = "idle"
    /\ CallsStarted < MaxCalls
    /\ LET c == [NewCall(r, "embed", <<text>>, 0) EXCEPT !.input = <<strip(text)>>]
           g == gateway[r]
       IN  IF text = <<>> \/ strip(text) = <<>>
           THEN /\ Finish(r, c, g, "invalid", <<>>)
                /\ UNCHANGED <<gateway, external_requests>>
           ELSE LET cached_embedding == _get_cached_embedding(text)
                    recent == RecentTimestamps(g.request_timestamps, now)
                    g1 == [g EXCEPT !.request_timestamps = recent]
                IN  IF cached_embedding # <<>>
                    THEN /\ Finish(r, [c EXCEPT !.hits = {1}], g, "returned",
                                   cached_embedding)
                         /\ UNCHANGED <<gateway, external_requests>>
                    ELSE /\ IF /\ Len(recent) >= g.rate_limit_requests
                               /\ RateWindow - (now - recent[1]) > 0
                            THEN /\ gateway' = [gateway EXCEPT ![r] = g1]
                                 /\ Sleep(r, c, "sleep_requests",
                                          RateWindow - (now - recent[1]))
                            ELSE CheckTokens(r, c, g1)
                         /\ UNCHANGED embed_history
    /\ UNCHANGED <<now, redis>>

\* _check_rate_limits goes on after its first asyncio.sleep
WakeRequests(r) ==
    /\ call[r].pc = "sleep_requests"
    /\ now >= call[r].wake
    /\ CheckTokens(r, call[r], gateway[r])
    /\ UNCHANGED <<now, redis, embed_history>>

\* _check_rate_limits and _check_rate_limits_batch go on after the
\* asyncio.sleep of the token limit, and the request is sent
WakeTokens(r) ==
    /\ call[r].pc = "sleep_tokens"
    /\ now >= call[r].wake
    /\ gateway' = [gateway EXCEPT ![r] =
                       [@ EXCEPT !.token_count = 0, !.token_reset_time = now]]
    /\ Send(r, call[r], call[r].input)
    /\ UNCHANGED <<now, redis, embed_history>>

\* the end of one iteration of the loop of generate_embeddings_batch: the
\* function pauses before the next batch or returns
EndIteration(r, c, g) ==
    IF c.i + c.batch_size < Len(c.texts)
    THEN /\ call' = [call EXCEPT ![r] = [c EXCEPT !.pc = "batch_pause"]]
         /\ UNCHANGED embed_history
    ELSE Finish(r, c, g, "returned", c.embeddings)

\* one iteration of the loop of generate_embeddings_batch, from the batch at
\* offset c.i up to its first suspension
BatchIteration(r, c) ==
    LET batch == Slice(c.texts, c.i, c.i + c.batch_size)
        batch_embeddings ==
            [ j \in 1..Len(batch) |->
                  IF _get_cached_embedding(batch[j]) # <<>>
                  THEN _get_cached_embedding(batch[j])[1]
                  ELSE Missing ]
        uncached_indices ==
            SelectSeq([j \in 1..Len(batch) |-> j - 1],
                      LAMBDA j : batch_embeddings[j + 1] = Missing)
        uncached_texts == [k \in 1..Len(uncached_indices) |->
                               batch[uncached_indices[k] + 1]]
        c1 == [c EXCEPT !.batch_embeddings = batch_embeddings,
                        !.uncached_indices = uncached_indices,
                        !.input = uncached_texts,
                        !.hits = @ \cup { c.i + j : j \in { k \in 1..Len(batch) :
                                              batch_embeddings[k] # Missing } }]
        g == ResetTokens(gateway[r], now)
        sleep_time == RateWindow - (now - g.token_reset_time)
    IN  IF uncached_texts # <<>>
        THEN /\ gateway' = [gateway EXCEPT ![r] = g]
             /\ IF /\ g.token_count + total_tokens(uncached_texts) > g.rate_limit_tokens
                   /\ sleep_time > 0
                THEN Sleep(r, c1, "sleep_tokens", sleep_time)
                ELSE Send(r, c1, uncached_texts)
             /\ UNCHANGED embed_history
        ELSE /\ EndIteration(r, [c1 EXCEPT !.embeddings = @ \o batch_embeddings],
                             gateway[r])
             /\ UNCHANGED <<gateway, external_requests>>

\* generate_embeddings_batch up to its first suspension
GenerateEmbeddingsBatch(r, texts, batch_size) ==
    /\ call[r].pc = "idle"
    /\ CallsStarted < MaxCalls
    /\ LET c == NewCall(r, "batch", texts, batch_size)
       IN  IF texts = <<>>
           THEN /\ Finish(r, c, gateway[r], "returned", <<>>)
                /\ UNCHANGED <<gateway, external_requests>>
           ELSE BatchIteration(r, c)
    /\ UNCHANGED <<now, redis>>

\* generate_embeddings_batch goes on after asyncio.sleep(0.1)
BatchResume(r) ==
    /\ call[r].pc = "batch_pause"
    /\ BatchIteration(r, [call[r] EXCEPT !.i = @ + call[r].batch_size])
    /\ UNCHANGED <<now, redis>>

\* client.embeddings.create returns, or raises when ok is false; writable is
\* whether the Redis writes that follow succeed
Respond(r, ok, writable) ==
    /\ call[r].pc = "calling"
    /\ LET c == call[r]
           data == [k \in 1..Len(c.input) |-> Vector(c.input[k])]
           written == IF writable THEN Len(c.input) ELSE 0
       IN  IF ~ok
           THEN /\ Finish(r, c, gateway[r], "upstream", <<>>)
                /\ UNCHANGED <<redis, gateway>>
           ELSE IF c.op = "embed"
           THEN /\ redis' = _cache_embedding(redis, c.texts[1], data[1], writable)
                /\ gateway' = [gateway EXCEPT ![r] = _update_rate_limits(@, c.texts[1])]
                /\ Finish(r, [c EXCEPT !.stores = @ + written],
                          _update_rate_limits(gateway[r], c.texts[1]), "returned", data)
           ELSE /\ redis' = CacheEach(redis, c.input, data, writable)
                /\ gateway' = [gateway EXCEPT ![r] = UpdateEach(@, c.input)]
                /\ EndIteration(r,
                       [c EXCEPT !.stores = @ + written,
                                 !.embeddings =
                                     @ \o FillUncached(c.batch_embeddings,
                                                       c.uncached_indices, data)],
                       UpdateEach(gateway[r], c.input))
    /\ UNCHANGED <<now, external_requests>>

\* a request handler constructs its EmbeddingsService
Construct(r) ==
    /\ call[r].pc = "none"
    /\ gateway' = [gateway EXCEPT ![r] = NewGateway]
    /\ call' = [call EXCEPT ![r] = IdleCall]
    /\ UNCHANGED <<now, redis, external_requests, embed_history>>

\* time passes
Tick ==
    /\ now + 30 <= MaxTime
    /\ now' = now + 30
    /\ UNCHANGED <<redis, gateway, call, external_requests, embed_history>>

\* the state before any embedding call, with the request handlers rs
EmbedStart(rs) ==
    /\ CiteIdle
    /\ pc = "embedding"
    /\ chunks = {}
    /\ similar_chunks = <<>>
    /\ retrieval = NoRetrieval
    /\ max_context_chunks = 2
    /\ similarity_threshold = 90
    /\ RequestIdle
    /\ sources = {}
    /\ documents = {}
    /\ processing_status = [d \in DocIds |-> None]
    /\ db_citations = {}
    /\ beats = {}
    /\ ProcIdle
    /\ chunking = NoChunking
    /\ stream = NoStream
    /\ ingest = NoIngest
    /\ manager = NoManager
    /\ now = 0
    /\ gateway = [r \in rs |-> NoGateway]
    /\ call = [r \in rs |-> NoCall]
    /\ external_requests = <<>>
    /\ embed_history = <<>>

\* the cache with no entry
EmptyCache == [k \in CacheKeys |-> NoEntry]

otherVars == <<citeVars, pc, chunks, retrVars, reqVars, dbVars, procVars, validation,
               chunking, stream, ingest, manager>>

NewService == \E r \in DOMAIN call : Construct(r) /\ UNCHANGED otherVars

Embed == \E r \in DOMAIN call, text \in EmbedTexts :
             GenerateEmbedding(r, text) /\ UNCHANGED otherVars

EmbedBatch == \E r \in DOMAIN call, texts \in BatchInputs, batch_size \in {1, 2} :
                  GenerateEmbeddingsBatch(r, texts, batch_size) /\ UNCHANGED otherVars

RequestsWindowFree == \E r \in DOMAIN call : WakeRequests(r) /\ UNCHANGED otherVars

TokensWindowFree == \E r \in DOMAIN call : WakeTokens(r) /\ UNCHANGED otherVars

NextBatch == \E r \in DOMAIN call : BatchResume(r) /\ UNCHANGED otherVars

Answer == \E r \in DOMAIN call, ok \in BOOLEAN, writable \in BOOLEAN :
              Respond(r, ok, writable) /\ UNCHANGED otherVars

TimePasses == Tick /\ UNCHANGED otherVars

\* one request handler calling generate_embedding
InitEmbed == EmbedStart({"r1"}) /\ redis = EmptyCache

NextEmbed ==
    \/ NewService
    \/ Embed
    \/ RequestsWindowFree
    \/ TokensWindowFree
    \/ Answer
    \/ TimePasses

SpecEmbed == InitEmbed /\ [][NextEmbed]_vars

\* the texts whose vectors earlier requests have left in the cache
CachedTexts == { <<"a">>, <<"b"," ","c"," ","d">> }

\* one request handler calling generate_embeddings_batch once, the cache
\* holding what earlier requests have stored
InitBatch ==
    /\ EmbedStart({"r1"})
    /\ \E cached \in SUBSET CachedTexts :
           redis = [k \in CacheKeys |->
                        IF k.text_hash \in cached
                        THEN [set |-> TRUE, value |-> Vector(k.text_hash),
                              expires |-> CacheTTL]
                        ELSE NoEntry]

FirstBatch == embed_history = <<>> /\ EmbedBatch

NextBatchCall ==
    \/ NewService
    \/ FirstBatch
    \/ TokensWindowFree
    \/ NextBatch
    \/ Answer
    \/ TimePasses

SpecBatch == InitBatch /\ [][NextBatchCall]_vars

\* the request handlers of two concurrent requests calling generate_embedding
InitConcurrent == EmbedStart(Requests) /\ redis = EmptyCache

NextConcurrent ==
    \/ NewService
    \/ Embed
    \/ RequestsWindowFree
    \/ TokensWindowFree
    \/ Answer
    \/ TimePasses

SpecConcurrent == InitConcurrent /\ [][NextConcurrent]_vars

(***************************************************************************)
(* The streaming conversation: StreamingRAGPipeline                        *)
(* .generate_streaming_response (services/rag_pipeline.py) consumed by     *)
(* generate_stream of the endpoint /conversation/stream (api/studio.py).   *)
(* stream.events are the events generate_stream has yielded to the         *)
(* response, in order.                                                     *)
(***************************************************************************)
\* the contents of the chunks of the language model's stream: a chunk may carry
\* no content
Deltas == { <<>>, <<"x">>, <<"y">> }

\* full_response += content
Accumulate_latest_only(full_response, content) ==
    content

Accumulate(full_response, content) ==
    full_response \o content

\* what _extract_citations and _validate_citation_coverage make of a text: the
\* citations and the report are known by the text they were computed from
ComputedFrom(text) == [of |-> text]

\* generate_stream yields the event to the response
Yield(st, event) == [st EXCEPT !.events = Append(@, event)]

\* the except clause of generate_streaming_response: the error event is
\* yielded and the generator is exhausted
Failed(st) ==
    [Yield(st, [type |-> "error"]) EXCEPT !.pc = "exhausted"]

otherThanStream == <<citeVars, pc, chunks, retrVars, reqVars, dbVars, procVars,
                     validation, chunking, embedVars, ingest, manager>>

\* the endpoint has returned its StreamingResponse over generate_stream()
InitStream ==
    /\ CiteIdle
    /\ pc = "streaming"
    /\ chunks = {}
    /\ similar_chunks = <<>>
    /\ retrieval = NoRetrieval
    /\ max_context_chunks = 2
    /\ similarity_threshold = 90
    /\ RequestIdle
    /\ sources = {}
    /\ documents = {}
    /\ processing_status = [d \in DocIds |-> None]
    /\ db_citations = {}
    /\ beats = {}
    /\ ProcIdle
    /\ chunking = NoChunking
    /\ EmbedIdle
    /\ ingest = NoIngest
    /\ manager = NoManager
    /\ \E episode \in {None, "e1"} :
           stream = [ pc |-> "retrieve", episode_id |-> episode,
                      events |-> <<>>, full_response |-> <<>>, deltas |-> 0,
                      cancelled |-> FALSE ]

\* await self._retrieve_context(...) and self._build_prompt(...)
StreamRetrieveContext ==
    /\ stream.pc = "retrieve"
    /\ \E ok \in BOOLEAN :
           stream' = IF ok THEN [stream EXCEPT !.pc = "create"] ELSE Failed(stream)
    /\ UNCHANGED otherThanStream

\* await self.client.chat.completions.create(..., stream=True)
CreateCompletion ==
    /\ stream.pc = "create"
    /\ \E ok \in BOOLEAN :
           stream' = IF ok THEN [stream EXCEPT !.pc = "receive"] ELSE Failed(stream)
    /\ UNCHANGED otherThanStream

\* one chunk of response_stream: a content event is yielded when the chunk
\* carries content
ReceiveDelta ==
    /\ stream.pc = "receive"
    /\ stream.deltas < MaxDeltas
    /\ \E content \in Deltas :
           LET st == [stream EXCEPT !.deltas = @ + 1,
                                    !.full_response = Accumulate(@, content)]
           IN  stream' = IF content # <<>>
                         THEN Yield(st, [type |-> "content", content |-> content,
                                         full_response |-> st.full_response])
                         ELSE st
    /\ UNCHANGED otherThanStream

\* response_stream raises while it is iterated
StreamBreaks ==
    /\ stream.pc = "receive"
    /\ stream' = Failed(stream)
    /\ UNCHANGED otherThanStream

\* response_stream ends
StreamEnds ==
    /\ stream.pc = "receive"
    /\ stream' = [stream EXCEPT !.pc = "citations"]
    /\ UNCHANGED otherThanStream

\* _extract_citations, _validate_citation_coverage and, with an episode_id,
\* citation_tracker.track_citations; then the complete event is yielded and
\* the generator is exhausted
ProcessCitations ==
    /\ stream.pc = "citations"
    /\ \E extracted \in BOOLEAN, tracked \in BOOLEAN :
           stream' = IF extracted /\ (stream.episode_id = None \/ tracked)
                     THEN [Yield(stream,
                                 [type |-> "complete",
                                  citations |-> ComputedFrom(stream.full_response),
                                  coverage_report |->
                                      ComputedFrom(stream.full_response)])
                               EXCEPT !.pc = "exhausted"]
                     ELSE Failed(stream)
    /\ UNCHANGED otherThanStream

\* generate_stream after its async for: the completion signal
SendDone ==
    /\ stream.pc = "exhausted"
    /\ stream' = [Yield(stream, [type |-> "done"]) EXCEPT !.pc = "closed"]
    /\ UNCHANGED otherThanStream

\* the consumer goes away: the response is cancelled where it is suspended,
\* which no except Exception clause catches
Cancel ==
    /\ stream.pc \notin {"none", "closed"}
    /\ stream' = [stream EXCEPT !.pc = "closed", !.cancelled = TRUE]
    /\ UNCHANGED otherThanStream

NextStream ==
    \/ StreamRetrieveContext
    \/ CreateCompletion
    \/ ReceiveDelta
    \/ StreamBreaks
    \/ StreamEnds
    \/ ProcessCitations
    \/ SendDone
    \/ Cancel

SpecStream == InitStream /\ [][NextStream]_vars

(***************************************************************************)
(* Prompt assembly: RAGPipeline._build_prompt and _format_context.  The    *)
(* content of a message is known by its kind: the system prompt, a text of *)
(* the history, or the user prompt with the context listing and the user   *)
(* message it is formatted from.                                           *)
(***************************************************************************)
\* conversation_history[-5:]
HistoryWindow == 5

MkMessage(role, kind, text, context) ==
    [role |-> role, content |-> [kind |-> kind, text |-> text, context |-> context]]

\* {"role": "system", "content": self.system_prompt}
SystemMessage == MkMessage("system", "system_prompt", <<>>, <<>>)

\* conversation_history[-5:]
LastExchanges_from_start(conversation_history) ==
    SubSeq(conversation_history, 1, Min(HistoryWindow, Len(conversation_history)))

LastExchanges(conversation_history) ==
    SubSeq(conversation_history,
           Max(1, Len(conversation_history) - HistoryWindow + 1),
           Len(conversation_history))

\* the loop over the exchanges: exchange.get("user") and
\* exchange.get("assistant") are appended when they are not empty; <<>> is a
\* missing key as well as an empty string
RECURSIVE HistoryMessages(_)
HistoryMessages(exchanges) ==
    IF exchanges = <<>> THEN <<>>
    ELSE LET exchange == Head(exchanges)
         IN  (IF exchange.user # <<>>
              THEN <<MkMessage("user", "text", exchange.user, <<>>)>> ELSE <<>>)
             \o (IF exchange.assistant # <<>>
                 THEN <<MkMessage("assistant", "text", exchange.assistant, <<>>)>>
                 ELSE <<>>)
             \o HistoryMessages(Tail(exchanges))

\* _format_context: the numbered entries of the chunks, in order
_format_context(context) ==
    [i \in 1..Len(context) |->
         [n |-> i, title |-> SourceTitle(context[i].source_id),
          author |-> SourceAuthor(context[i].source_id), chunk |-> context[i].id]]

_build_prompt(user_message, context, conversation_history) ==
    <<SystemMessage>>
        \o HistoryMessages(LastExchanges(conversation_history))
        \o <<MkMessage("user", "user_prompt", user_message, _format_context(context))>>

\* the texts of exchange i of a history
Numeral == <<"1", "2", "3", "4", "5", "6", "7", "8", "9">>

Exchange(i, has_user, has_assistant) ==
    [user |-> IF has_user THEN <<"u", Numeral[i]>> ELSE <<>>,
     assistant |-> IF has_assistant THEN <<"a", Numeral[i]>> ELSE <<>>]

\* the histories of a request: every exchange with or without its user text
\* and its assistant text
Histories ==
    UNION { { [i \in 1..n |-> Exchange(i, u[i], a[i])] :
                  u \in [1..n -> BOOLEAN], a \in [1..n -> BOOLEAN] } :
            n \in 0..MaxHistory }

PromptContexts ==
    { <<>>, <<MkChunk(1, "d1", "s1")>>, <<MkChunk(2, "d2", "s2"), MkChunk(1, "d1", "s1")>> }

\* _build_prompt is about to be called
InitPrompt ==
    /\ response_text = <<>>
    /\ context_chunks \in PromptContexts
    /\ citations = <<>>
    /\ coverage_report = NoReport
    /\ pc = "retrieved"
    /\ chunks = {}
    /\ similar_chunks = <<>>
    /\ retrieval = NoRetrieval
    /\ max_context_chunks = 2
    /\ similarity_threshold = 90
    /\ episode_id = None
    /\ \E conversation_history \in Histories :
           prompt = [user_message |-> <<"q">>,
                     conversation_history |-> conversation_history,
                     messages |-> <<>>]
    /\ failure = None
    /\ n_requests = 0
    /\ sources = {}
    /\ documents = {}
    /\ processing_status = [d \in DocIds |-> None]
    /\ db_citations = {}
    /\ beats = {}
    /\ ProcIdle
    /\ AuxIdle

AssemblePrompt ==
    /\ pc = "retrieved"
    /\ prompt.messages = <<>>
    /\ prompt' = [prompt EXCEPT !.messages =
                      _build_prompt(prompt.user_message, context_chunks,
                                    prompt.conversation_history)]
    /\ pc' = "prompted"
    /\ UNCHANGED <<citeVars, chunks, retrVars, episode_id, failure, n_requests,
                   dbVars, procVars, validation, auxVars>>

NextPrompt == AssemblePrompt

SpecPrompt == InitPrompt /\ [][NextPrompt]_vars

(***************************************************************************)
(* Document ingestion (services/file_processor.py): process_upload,        *)
(* the background task _process_chunks it spawns, and reprocess_document.  *)
(* ingest.runs holds one record per started chunk-processing run; a run    *)
(* is suspended only at its awaits of generate_embedding.                  *)
(***************************************************************************)

\* the uploaded files; files with the same content have the same file_hash
Files == {"f1", "f2"}

\* the document a file becomes: Document.file_hash identifies it
FileDoc(f) == IF f = "f1" THEN "d1" ELSE "d2"

NewRun(d, by, at) == [pc |-> at, doc |-> d, by |-> by, added |-> 0, outcome |-> None]

\* a run that has ended with the given outcome
Ended(run, outcome) == [run EXCEPT !.pc = "ended", !.outcome = outcome]

\* _create_document and the create_task of process_upload: the existing
\* document with the file's hash is returned, or a new one is committed with
\* processing_status "completed"; _process_chunks is spawned on the result
process_upload(f) ==
    /\ Len(ingest.runs) < MaxRuns
    /\ LET d == FileDoc(f)
       IN  /\ documents' = documents \cup {d}
           /\ processing_status' =
                  IF d \in documents THEN processing_status
                  ELSE [processing_status EXCEPT ![d] = "completed"]
           /\ ingest' = [ingest EXCEPT !.runs = Append(@, NewRun(d, "upload", "spawned"))]
    /\ UNCHANGED <<citeVars, pc, chunks, retrVars, reqVars, sources, db_citations,
                   beats, rp, next_chunk_id, n_background, validation>>
    /\ UNCHANGED <<chunking, embedVars, stream, manager>>

\* reprocess_document up to its call of _process_chunks: the chunks of the
\* document are deleted, its status is reset to "processing" and its error
\* message cleared
reprocess_document(d) ==
    /\ Len(ingest.runs) < MaxRuns
    /\ d \in documents
    /\ chunks' = { c \in chunks : c.document_id # d }
    /\ processing_status' = [processing_status EXCEPT ![d] = "processing"]
    /\ ingest' = [ingest EXCEPT !.runs = Append(@, NewRun(d, "reprocess", "called")),
                                !.error_message[d] = None]
    /\ UNCHANGED <<citeVars, pc, retrVars, reqVars, sources, documents, db_citations,
                   beats, rp, next_chunk_id, n_background, validation>>
    /\ UNCHANGED <<chunking, embedVars, stream, manager>>

\* _process_chunks, lines 247-257: status "chunking" is committed and the
\* text is chunked; when chunk_text raises, the handler of lines 288-292
\* commits status "error" with the message
_process_chunks_begin(r) ==
    /\ r \in DOMAIN ingest.runs
    /\ ingest.runs[r].pc \in {"spawned", "called"}
    /\ LET run == ingest.runs[r]
       IN  \E chunked \in BOOLEAN :
               IF chunked
               THEN /\ processing_status' =
                           [processing_status EXCEPT ![run.doc] = "chunking"]
                    /\ ingest' = [ingest EXCEPT !.runs[r].pc = "embedding"]
               ELSE /\ processing_status' =
                           [processing_status EXCEPT ![run.doc] = "error"]
                    /\ ingest' = [ingest EXCEPT !.runs[r] = Ended(run, "error"),
                                                !.error_message[run.doc] = "chunk_text"]
    /\ UNCHANGED <<citeVars, pc, chunks, retrVars, reqVars, sources, documents,
                   db_citations, beats, rp, next_chunk_id, n_background, validation>>
    /\ UNCHANGED <<chunking, embedVars, stream, manager>>

\* _process_chunks, lines 260-292: the embedding call for the next chunk
\* returns and Chunk(sequence_number=i) is added to the session; after the
\* last one the chunks are committed with status "indexed". When the call
\* raises, the handler commits status "error" and the message, and with them
\* the chunks added so far
_process_chunks_embed(r) ==
    /\ r \in DOMAIN ingest.runs
    /\ ingest.runs[r].pc = "embedding"
    /\ LET run == ingest.runs[r]
           d == run.doc
       IN  \E embedded \in BOOLEAN :
               IF embedded /\ run.added + 1 < DocChunkCount(d)
               THEN /\ ingest' = [ingest EXCEPT !.runs[r].added = @ + 1]
                    /\ UNCHANGED <<chunks, next_chunk_id, processing_status>>
               ELSE LET n == IF embedded THEN run.added + 1 ELSE run.added
                    IN  /\ chunks' = chunks \cup FlushedChunks(d, n)
                        /\ next_chunk_id' = next_chunk_id + n
                        /\ processing_status' =
                               [processing_status EXCEPT
                                    ![d] = IF embedded THEN "indexed" ELSE "error"]
                        /\ ingest' =
                               IF embedded
                               THEN [ingest EXCEPT
                                        !.runs[r] = Ended([run EXCEPT !.added = n], "indexed")]
                               ELSE [ingest EXCEPT
                                        !.runs[r] = Ended(run, "error"),
                                        !.error_message[d] = "generate_embedding"]
    /\ UNCHANGED <<citeVars, pc, retrVars, reqVars, sources, documents,
                   db_citations, beats, rp, n_background, validation>>
    /\ UNCHANGED <<chunking, embedVars, stream, manager>>

\* no document has been uploaded
InitIngest ==
    /\ CiteIdle
    /\ pc = "idle"
    /\ chunks = {}
    /\ similar_chunks = <<>>
    /\ retrieval = NoRetrieval
    /\ max_context_chunks = 2
    /\ similarity_threshold = 90
    /\ RequestIdle
    /\ sources = {"s1"}
    /\ documents = {}
    /\ processing_status = [d \in DocIds |-> None]
    /\ db_citations = {}
    /\ beats = {}
    /\ ProcIdle
    /\ AuxIdle

Upload == \E f \in Files : process_upload(f)

ReprocessCall == \E d \in DocIds : reprocess_document(d)

ChunksBegin == \E r \in 1..MaxRuns : _process_chunks_begin(r)

ChunkEmbedded == \E r \in 1..MaxRuns : _process_chunks_embed(r)

NextIngest ==
    \/ Upload
    \/ ReprocessCall
    \/ ChunksBegin
    \/ ChunkEmbedded

SpecIngest == InitIngest /\ [][NextIngest]_vars

(***************************************************************************)
(* The beats of an episode (api/studio.py, create_conversation).           *)
(***************************************************************************)

\* the sequence_number fields of ConversationRequest; 0 stands for a request
\* that leaves the optional field out
SequenceNumbers == 0..3

\* create_conversation, lines 74-88, for a request with an episode id whose
\* generate_response has returned: the beat is stored with the sequence
\* number of the request, or 1 when the request has none
create_conversation(ep, sequence_number) ==
    /\ Cardinality(beats) < MaxBeats
    /\ beats' = beats \cup
                { [id |-> Cardinality(beats) + 1, episode_id |-> ep,
                   sequence_number |-> IF sequence_number = 0 THEN 1
                                       ELSE sequence_number,
                   lincoln_response |-> <<>>] }
    /\ UNCHANGED <<citeVars, pc, chunks, retrVars, reqVars, sources, documents,
                   processing_status, db_citations, procVars, validation, auxVars>>

NextBeats ==
    \E ep \in EpisodeIds \cup {"e2"}, n \in SequenceNumbers : create_conversation(ep, n)

SpecBeats == InitIngest /\ [][NextBeats]_vars

(***************************************************************************)
(* The WebSocket endpoint /ws/{user_id} and its ConnectionManager          *)
(* (api/studio.py).  Every connection runs its own websocket_endpoint      *)
(* coroutine; manager is the one object they share.                        *)
(***************************************************************************)

otherThanManager == <<citeVars, pc, chunks, retrVars, reqVars, dbVars, procVars,
                      validation, chunking, embedVars, stream, ingest>>

\* ConnectionManager.send_message(user_id, message) called by the endpoint of
\* socket w: the message goes to the socket registered for the user and is
\* left out without notice when none is registered
send_message(m, w) ==
    LET registered == m.active_connections[m.sockets[w].user_id]
    IN  IF registered # None
        THEN [m EXCEPT !.sent = @ + 1, !.sockets[registered].delivered = @ + 1]
        ELSE [m EXCEPT !.sent = @ + 1, !.dropped = @ + 1]

\* ConnectionManager.disconnect(user_id) called by the endpoint of socket w
disconnect(m, w) ==
    [m EXCEPT !.active_connections[m.sockets[w].user_id] = None]

\* websocket_endpoint, line 158: manager.connect accepts the socket and
\* registers it under the user id of the path
Connect(w, user_id) ==
    /\ manager.sockets[w].pc = "none"
    /\ manager' = [manager EXCEPT !.active_connections[user_id] = w,
                                  !.sockets[w].pc = "receiving",
                                  !.sockets[w].user_id = user_id]
    /\ UNCHANGED otherThanManager

\* lines 165-169: a message of type chat is received
ReceiveChat(w) ==
    /\ manager.sockets[w].pc = "receiving"
    /\ manager.sent < MaxEvents
    /\ manager' = [manager EXCEPT !.sockets[w].pc = "chatting"]
    /\ UNCHANGED otherThanManager

\* lines 171-177: the pipeline yields an event and it is sent to the user
SendChunk(w) ==
    /\ manager.sockets[w].pc \in {"chatting", "streaming"}
    /\ manager.sent < MaxEvents
    /\ manager' = [send_message(manager, w) EXCEPT !.sockets[w].pc = "streaming"]
    /\ UNCHANGED otherThanManager

\* the pipeline's generator, which yields at least its complete or its error
\* event, is exhausted: the chat message is answered and the endpoint is back
\* at receive_text
ChatEnds(w) ==
    /\ manager.sockets[w].pc = "streaming"
    /\ manager' = [manager EXCEPT !.sockets[w].pc = "receiving", !.answered = @ + 1]
    /\ UNCHANGED otherThanManager

\* lines 185-187: a ping is received and answered
Ping(w) ==
    /\ manager.sockets[w].pc = "receiving"
    /\ manager.sent < MaxEvents
    /\ manager' = send_message(manager, w)
    /\ UNCHANGED otherThanManager

\* lines 189-190: receive_text raises WebSocketDisconnect
Disconnect(w) ==
    /\ manager.sockets[w].pc = "receiving"
    /\ manager' = [disconnect(manager, w) EXCEPT !.sockets[w].pc = "closed"]
    /\ UNCHANGED otherThanManager

SocketOpens == \E w \in Sockets, u \in Users : Connect(w, u)

ChatArrives == \E w \in Sockets : ReceiveChat(w)

ChunkSent == \E w \in Sockets : SendChunk(w)

ChatDone == \E w \in Sockets : ChatEnds(w)

PingArrives == \E w \in Sockets : Ping(w)

SocketCloses == \E w \in Sockets : Disconnect(w)

NextSockets ==
    \/ SocketOpens
    \/ ChatArrives
    \/ ChunkSent
    \/ ChatDone
    \/ PingArrives
    \/ SocketCloses

SpecSockets == InitIngest /\ [][NextSockets]_vars

(***************************************************************************)
(* Claims about extraction and coverage.                                   *)
(***************************************************************************)
\* the score the specification gives a chunk for a marker text
ClaimScore(m, ch) ==
    (IF Contains(lower(SourceTitle(ch.source_id)), lower(m)) THEN 2 ELSE 0)
    + (IF SourceAuthor(ch.source_id) # <<>>
          /\ Contains(lower(m), lower(SourceAuthor(ch.source_id)))
       THEN 1 ELSE 0)

ClaimBestScore(m, chs) ==
    IF chs = <<>> THEN 0
    ELSE CHOOSE b \in { ClaimScore(m, chs[i]) : i \in 1..Len(chs) } :
             \A i \in 1..Len(chs) : ClaimScore(m, chs[i]) <= b

\* the earliest chunk, in retrieval order, holding the best score
ClaimFirstBest(m, chs) ==
    CHOOSE i \in 1..Len(chs) :
        /\ ClaimScore(m, chs[i]) = ClaimBestScore(m, chs)
        /\ \A j \in 1..(i - 1) : ClaimScore(m, chs[j]) < ClaimBestScore(m, chs)

ScoringMarkers ==
    LET Scores(m) == ClaimBestScore(m, context_chunks) > 0
    IN  SelectSeq(citation_matches(response_text), Scores)

\* C1: extract emits, in marker order, one citation per [Source: <text>] marker
\* whose best score (+2 marker text in title, +1 author in marker text, both
\* case-insensitive) is above zero and none for a marker scoring zero; the
\* citation references the earliest chunk with the highest score and has
\* confidence min(best_score / 3, 1).
C1_ExtractMatchesScoring ==
    pc # "generated" =>
        /\ Len(citations) = Len(ScoringMarkers)
        /\ \A n \in 1..Len(citations) :
             LET m == ScoringMarkers[n]
                 ch == context_chunks[ClaimFirstBest(m, context_chunks)]
                 best == ClaimBestScore(m, context_chunks)
             IN  /\ citations[n].citation_text = m
                 /\ citations[n].chunk_id = ch.id
                 /\ citations[n].document_id = ch.document_id
                 /\ citations[n].source_id = ch.source_id
                 /\ RatEq(citations[n].confidence_score,
                          IF best >= 3 THEN Rat(1, 1) ELSE Rat(best, 3))

\* a run with a marker that scores zero, a cited marker, and a tie between two
\* chunks of equal best score that the first chunk wins
C1_Witness ==
    /\ pc = "extracted"
    /\ Len(citations) >= 1
    /\ Len(citation_matches(response_text)) > Len(citations)
    /\ Len(context_chunks) = 2
    /\ context_chunks[1].id # context_chunks[2].id
    /\ ClaimScore(citations[1].citation_text, context_chunks[1])
         = ClaimScore(citations[1].citation_text, context_chunks[2])
    /\ citations[1].chunk_id = context_chunks[1].id

\* m has the form "<title>, <location>"
IsTitleLocationMarker(m, title) ==
    /\ Len(m) > Len(title) + 2
    /\ SubSeq(m, 1, Len(title)) = title
    /\ m[Len(title) + 1] = ","
    /\ m[Len(title) + 2] = " "

ScenarioB ==
    /\ Len(citation_matches(response_text)) = 1
    /\ Len(context_chunks) = 1
    /\ IsTitleLocationMarker(citation_matches(response_text)[1],
                             SourceTitle(context_chunks[1].source_id))

\* C2: for a response with one marker "[Source: <Title>, <location>]" and one
\* context chunk whose source title is exactly <Title>, extract emits exactly
\* one citation, referencing that chunk, with confidence 2/3 (score 2).
C2_ScenarioB_OneCitation ==
    (pc # "generated" /\ ScenarioB) =>
        /\ Len(citations) = 1
        /\ citations[1].chunk_id = context_chunks[1].id
        /\ RatEq(citations[1].confidence_score, Rat(2, 3))

\* the spans <<first, last>> of the pieces of text.split('.'), from position i
RECURSIVE SentenceSpans(_, _)
SentenceSpans(text, i) ==
    IF \A k \in i..Len(text) : text[k] # "."
    THEN <<(<<i, Len(text)>>)>>
    ELSE LET k == CHOOSE k \in i..Len(text) :
                      text[k] = "." /\ \A j \in i..(k - 1) : text[j] # "."
         IN  <<(<<i, k - 1>>)>> \o SentenceSpans(text, k + 1)

\* the spans of the whole markers, brackets included, that received a citation
MatchedMarkerSpans ==
    LET spans == MarkerSpans(response_text, 1)
        Scores(sp) == ClaimBestScore(SubSeq(response_text, sp[1], sp[2]), context_chunks) > 0
        matched == SelectSeq(spans, Scores)
    IN  { <<matched[n][1] - Len(SourcePrefix), matched[n][2] + 1>> : n \in 1..Len(matched) }

FactualSentenceSpans ==
    LET spans == SentenceSpans(response_text, 1)
    IN  { n \in 1..Len(spans) :
            _is_factual_claim(SubSeq(response_text, spans[n][1], spans[n][2])) }

\* the factual-claim sentences that overlap a matched citation marker
CitedFactualSentences ==
    LET spans == SentenceSpans(response_text, 1)
    IN  { n \in FactualSentenceSpans :
            \E msp \in MatchedMarkerSpans :
                msp[1] <= spans[n][2] /\ spans[n][1] <= msp[2] }

\* C3: the reported coverage is the fraction of factual-claim sentences that
\* carry a matched citation: coverage_pct = 100 * cited / factual, so a
\* response with an uncited factual-claim sentence never reports 100.
C3_CoverageIsCitedFraction ==
    (pc = "covered" /\ FactualSentenceSpans # {}) =>
        RatEq(coverage_report.coverage_percentage,
              Rat(100 * Cardinality(CitedFactualSentences),
                  Cardinality(FactualSentenceSpans)))

\* C4: coverage_pct = min(citation_count / max(factual_claim_count, 1), 1) * 100
\* lies in [0, 100]; meets_requirement holds exactly when coverage_pct >= 90;
\* zero citations with at least one factual claim report 0 and false.
C4_CoverageBound ==
    pc = "covered" =>
        LET r == coverage_report
            c == r.citations_provided
            f == r.factual_claims
            pct == r.coverage_percentage
        IN  /\ c = Len(citations)
            /\ f = Cardinality(FactualSentenceSpans)
            /\ RatEq(pct, IF c >= Max(f, 1) THEN Rat(100, 1) ELSE Rat(100 * c, Max(f, 1)))
            /\ RatLeq(Rat(0, 1), pct) /\ RatLeq(pct, Rat(100, 1))
            /\ r.meets_requirement <=> RatLeq(Rat(90, 1), pct)
            /\ (c = 0 /\ f >= 1) => (RatEq(pct, Rat(0, 1)) /\ ~r.meets_requirement)

\* Scenario E: no citation and three factual-claim sentences
C4_Witness ==
    /\ pc = "covered"
    /\ coverage_report.citations_provided = 0
    /\ coverage_report.factual_claims = 3
    /\ RatEq(coverage_report.coverage_percentage, Rat(0, 1))
    /\ ~coverage_report.meets_requirement


(***************************************************************************)
(* Claims about retrieval.                                                 *)
(***************************************************************************)
\* the number of chunks of document d in the retrieval result
ContextCount(d) ==
    Cardinality({ i \in 1..Len(context_chunks) : context_chunks[i].document_id = d })

\* C8: no retrieval result holds more than three chunks of one document,
\* whatever the similarity scores of the candidates.
C8_AtMostThreePerDocument ==
    \A d \in DocIds : ContextCount(d) <= 3

\* four candidates of document d1 cleared the threshold, three of them were
\* selected and the fourth was passed over for a chunk of another document
C8_Witness ==
    /\ pc = "retrieved"
    /\ Cardinality({ i \in 1..Len(similar_chunks) :
                        similar_chunks[i][1].document_id = "d1" }) = 4
    /\ ContextCount("d1") = 3
    /\ Len(context_chunks) = 4

\* an ok retrieval that found no candidate, for the request in progress
EmptyRetrieval ==
    /\ retrieval.outcome = "ok"
    /\ retrieval.candidates = 0

\* C9: when no candidate clears the similarity threshold, retrieval returns an
\* empty sequence and no error, and the request goes on to prompt assembly
\* and generation with the empty context: it never fails at retrieval, the
\* prompt carries no context chunk, and only the language-model call can fail.
C9_EmptyRetrievalContinues ==
    EmptyRetrieval =>
        /\ context_chunks = <<>>
        /\ failure \in {None, "llm"}
        /\ pc = "failed" => failure = "llm"
        /\ pc \in {"prompted", "generated", "extracted", "covered", "tracked", "done"}
               => prompt.context = <<>>

\* the response was generated from the empty context of an empty retrieval
C9_Witness ==
    /\ EmptyRetrieval
    /\ pc = "generated"
    /\ prompt.context = <<>>
    /\ response_text # <<>>

\* C10: a failure of the embedding call or of the index query during retrieval
\* is surfaced to the caller: no request whose retrieval failed reaches the
\* language model or returns a response.
C10_RetrievalFailureSurfaces ==
    pc \in {"prompted", "generated", "extracted", "covered", "tracked", "done"}
        => retrieval.outcome = "ok"

(***************************************************************************)
(* Claims about persisted citations.                                       *)
(***************************************************************************)
\* C7: in every reachable state every row of table citations references a
\* chunk that exists, whatever the interleaving of conversation requests with
\* reprocess_document and delete_source.
C7_CitationsReferenceChunks ==
    \A r \in db_citations : \E c \in chunks : c.id = r.chunk_id

\* a citation is persisted and the reprocessing of its document was refused
C7_Witness ==
    \E r \in db_citations :
        /\ rp.result = "raised"
        /\ rp.doc = r.document_id
        /\ \E c \in chunks : c.id = r.chunk_id

(***************************************************************************)
(* Claims about validation.                                                *)
(***************************************************************************)
\* 0 <= a <= 1
InUnit(a) == a.den > 0 /\ 0 <= a.num /\ a.num <= a.den

\* 0.4 similarity + 0.3 quote + 0.2 reliability + 0.1 confidence, as the
\* fraction (4s + 3q + 2r + c) / 10 over the common denominator
ClaimAccuracy(rep) ==
    LET sn == rep.similarity_score.num
        sd == rep.similarity_score.den
        rn == rep.source_reliability.num
        rd == rep.source_reliability.den
        cn == rep.confidence.num
        cd == rep.confidence.den
        q == IF rep.quote_match THEN 1 ELSE 0
    IN  [num |-> 4 * sn * rd * cd + 3 * q * sd * rd * cd + 2 * rn * sd * cd + cn * sd * rd,
         den |-> 10 * sd * rd * cd]

\* the report of a validation that found its chunk
ClaimReportHolds(rep) ==
    (InUnit(rep.similarity_score) /\ InUnit(rep.source_reliability) /\ InUnit(rep.confidence)) =>
        /\ RatEq(rep.accuracy_score, ClaimAccuracy(rep))
        /\ InUnit(rep.accuracy_score)
        /\ rep.valid <=> (7 * rep.accuracy_score.den <= 10 * rep.accuracy_score.num)

\* the reports of the last tracker call, with the ids of their citations
LastReports ==
    IF validation.op = "validate"
    THEN { <<validation.after.id, validation.report>> }
    ELSE IF validation.op = "bulk"
    THEN { <<validation.report.results[n].citation_id, validation.report.results[n].validation>> :
             n \in 1..Len(validation.report.results) }
    ELSE {}

\* C5: validate computes accuracy = 0.4 similarity + 0.3 (1 if quote_match
\* else 0) + 0.2 source_reliability + 0.1 confidence, which lies in [0, 1]
\* unclamped; the report is valid exactly when accuracy >= 0.7; the score
\* stored on the citation is that accuracy; and the episode report counts a
\* citation as valid under the same threshold.
C5_AccuracyAndThreshold ==
    /\ \A p \in LastReports :
         "accuracy_score" \in DOMAIN p[2] =>
             /\ ClaimReportHolds(p[2])
             /\ p[1] # 0 => \E c \in db_citations :
                                /\ c.id = p[1]
                                /\ c.validation_score = p[2].accuracy_score
    /\ validation.op = "validate" /\ "accuracy_score" \in DOMAIN validation.report
           => validation.after.validation_score = validation.report.accuracy_score
    /\ validation.op = "report" =>
           validation.report.valid_citations =
               Cardinality({ c \in db_citations :
                               /\ c.episode_id = validation.report.episode_id
                               /\ c.validation_score.den > 0
                               /\ 7 * c.validation_score.den <= 10 * c.validation_score.num })

\* the episode report counts one citation validated at exactly 0.7 as valid
\* and leaves out another validated below 0.7
C5_Witness ==
    /\ validation.op = "report"
    /\ validation.report.valid_citations = 1
    /\ \E c \in db_citations :
         /\ c.validation_score.den > 0
         /\ 7 * c.validation_score.den = 10 * c.validation_score.num
    /\ \E c \in db_citations :
         /\ c.validation_score.den > 0
         /\ 7 * c.validation_score.den > 10 * c.validation_score.num

\* the citations of the table that bulk validation hands to validate
Validatable(episode) ==
    { c \in db_citations : c.episode_id = episode /\ BeatResponse(c, beats) # <<>> }

\* bulk validation of the episode against the chunk table chs: it does not
\* raise, reports one result per citation above, and a citation whose chunk
\* is in chs gets the report and score it gets when validated alone, while
\* one whose chunk is not in chs gets a failed report and stays as it was
BulkSurvives(episode, chs) ==
    LET b == bulk_validate_citations(episode, db_citations, beats, chs)
    IN  /\ ~b.raised
        /\ b.report.validated_citations = Cardinality(Validatable(episode))
        /\ \A c \in Validatable(episode) :
             \E n \in 1..Len(b.report.results) :
                /\ b.report.results[n].citation_id = c.id
                /\ IF \E k \in chs : k.id = c.chunk_id
                   THEN /\ "accuracy_score" \in DOMAIN b.report.results[n].validation
                        /\ \E a \in b.citations :
                              /\ a.id = c.id
                              /\ a.validation_score = b.report.results[n].validation.accuracy_score
                   ELSE /\ b.report.results[n].validation.valid = FALSE
                        /\ "error" \in DOMAIN b.report.results[n].validation
                        /\ c \in b.citations

\* C6: validate on a citation whose chunk does not exist returns a failed
\* report (valid = false) without raising and leaves the citation's
\* validation score and metadata unchanged; and bulk validation of an
\* episode run without the chunk of any one of its citations still validates
\* the remaining citations.
C6_MissingChunkIsAFailedReport ==
    [][ /\ (/\ validation' # validation
            /\ validation'.op = "validate"
            /\ ~ \E c \in chunks : c.id = validation'.before.chunk_id)
           => /\ ~validation'.raised
              /\ validation'.report.valid = FALSE
              /\ validation'.after = validation'.before
              /\ db_citations' = db_citations
        /\ \A ep \in EpisodeIds : \A c0 \in db_citations :
              BulkSurvives(ep, { k \in chunks : k.id # c0.chunk_id })
      ]_vars

\* validate has returned a failed report for a citation whose chunk is gone,
\* while the table holds citations of two beats on two other chunks
C6_Witness ==
    /\ validation.op = "validate"
    /\ "error" \in DOMAIN validation.report
    /\ ~validation.raised
    /\ ~ \E c \in chunks : c.id = validation.before.chunk_id
    /\ \E c1 \in Validatable("e1"), c2 \in Validatable("e1") : c1.chunk_id # c2.chunk_id

(***************************************************************************)
(* Claims about the chunker.                                               *)
(***************************************************************************)
\* the chunks a chunk_text call returned
ReturnedChunks ==
    IF chunking # NoChunking /\ chunking.result.outcome = "returned"
    THEN { chunking.result.chunks[i] : i \in 1..Len(chunking.result.chunks) }
    ELSE {}

\* the sentences and the paragraphs of a text
AtomicUnits(text) ==
    LET sentences == _split_sentences(text)
        paragraphs == StripAll(SplitAt(text, paragraph_breaks(text, 1), 0))
    IN  { sentences[i] : i \in 1..Len(sentences) }
            \cup { paragraphs[i] : i \in 1..Len(paragraphs) }

\* C11: no chunk returned by chunk_text is longer than the target size, unless
\* it is one sentence or one paragraph of the input that is itself longer; a
\* chunk of the fixed-with-overlap strategy is never longer than the target size
C11_ChunkWithinTargetSize ==
    \A c \in ReturnedChunks :
        \/ Len(c) <= chunking.chunk_size
        \/ /\ chunking.method # "recursive_character"
           /\ c \in AtomicUnits(chunking.text)

\* position i of text, counted from 1, lies in an occurrence of c in text
CoveredBy(text, i, c) ==
    \E o \in 1..(Len(text) - Len(c) + 1) :
        /\ o <= i
        /\ i < o + Len(c)
        /\ SubSeq(text, o, o + Len(c) - 1) = c

\* C12: the chunks returned by chunk_text are spans of the input and together
\* cover it: every character of the input that is not whitespace lies in a chunk
C12_ChunksCoverInput ==
    (chunking # NoChunking /\ chunking.result.outcome = "returned")
        => /\ \A c \in ReturnedChunks : Contains(chunking.text, c)
           /\ \A i \in 1..Len(chunking.text) :
                  chunking.text[i] \notin Whitespace
                      => \E c \in ReturnedChunks : CoveredBy(chunking.text, i, c)

\* C13: every chunk returned by chunk_text is non-empty and has no whitespace
\* at either end
C13_ChunksNonEmptyAndTrimmed ==
    \A c \in ReturnedChunks : c # <<>> /\ strip(c) = c

(***************************************************************************)
(* Claims about the embeddings service                                     *)
(***************************************************************************)
\* the finished calls of generate_embedding
EmbedCalls == { i \in 1..Len(embed_history) : embed_history[i].op = "embed" }

\* C14: of two generate_embedding calls with the same text, the second begun
\* after the first returned and within the cache lifetime, the second returns
\* the vector of the first, makes no request to the embedding model and leaves
\* request_timestamps, token_count and token_reset_time as they were
C14_SecondEmbedServedFromCache ==
    \A i \in EmbedCalls, j \in EmbedCalls :
        /\ embed_history[i].outcome = "returned"
        /\ embed_history[j].outcome = "returned"
        /\ embed_history[i].texts = embed_history[j].texts
        /\ embed_history[j].seen >= i
        /\ embed_history[j].started - embed_history[i].ended < CacheTTL
        => /\ embed_history[j].vectors = embed_history[i].vectors
           /\ embed_history[j].externals = 0
           /\ embed_history[j].after = embed_history[j].before

\* the requests that the service of request r sent to the embedding model in
\* the RateWindow seconds that end at time t
SentInWindow(r, t) ==
    { k \in 1..Len(external_requests) :
          /\ external_requests[k].by = r
          /\ t - external_requests[k].time < RateWindow
          /\ external_requests[k].time <= t }

\* C15: on one service, the requests sent to the embedding model within any
\* window of 60 seconds are never more than rate_limit_requests, and no call
\* fails because of the limit
C15_RequestsWithinLimit ==
    /\ \A k \in 1..Len(external_requests) :
           LET e == external_requests[k]
           IN  Cardinality(SentInWindow(e.by, e.time))
                   <= gateway[e.by].rate_limit_requests
    /\ \A i \in 1..Len(embed_history) :
           embed_history[i].outcome \in {"returned", "invalid", "upstream"}

\* the estimated tokens of a set of requests, in tenths
RECURSIVE TokensOf(_)
TokensOf(ks) ==
    IF ks = {} THEN 0
    ELSE LET k == CHOOSE x \in ks : TRUE
         IN  external_requests[k].tokens + TokensOf(ks \ {k})

\* C16: on one service, the estimated tokens of the texts sent to the
\* embedding model within any window of 60 seconds are never more than
\* rate_limit_tokens
C16_TokensWithinLimit ==
    \A k \in 1..Len(external_requests) :
        LET e == external_requests[k]
        IN  TokensOf(SentInWindow(e.by, e.time)) <= gateway[e.by].rate_limit_tokens

\* the requests that the services of all request handlers sent to the
\* embedding model in the RateWindow seconds that end at time t
SentByAllInWindow(t) ==
    UNION { SentInWindow(r, t) : r \in DOMAIN call }

\* the request handlers that have constructed their service
Constructed == { r \in DOMAIN call : call[r].pc # "none" }

\* C17: the rate limiting counters are those of all concurrent requests: the
\* services of any two request handlers hold the same request_timestamps and
\* token_count, and the requests of all handlers together stay within
\* rate_limit_requests and rate_limit_tokens in every window of 60 seconds
C17_CountersSharedByRequests ==
    /\ \A r \in Constructed, q \in Constructed :
           /\ gateway[r].request_timestamps = gateway[q].request_timestamps
           /\ gateway[r].token_count = gateway[q].token_count
    /\ \A k \in 1..Len(external_requests) :
           LET e == external_requests[k]
           IN  /\ Cardinality(SentByAllInWindow(e.time))
                      <= gateway[e.by].rate_limit_requests
               /\ TokensOf(SentByAllInWindow(e.time))
                      <= gateway[e.by].rate_limit_tokens

\* the finished calls of generate_embeddings_batch that returned
BatchesReturned ==
    { i \in 1..Len(embed_history) :
          embed_history[i].op = "batch" /\ embed_history[i].outcome = "returned" }

\* the inputs of the requests that call id sent to the embedding model, in the
\* order they were sent
InputsOfCall(id) ==
    LET sent == SelectSeq(external_requests, LAMBDA e : e.call = id)
    IN  [k \in 1..Len(sent) |-> sent[k].input]

\* every vector of the finished call h is the vector of the text at its place
InInputOrder(h) ==
    /\ Len(h.vectors) = Len(h.texts)
    /\ \A i \in 1..Len(h.texts) : h.vectors[i] = Vector(h.texts[i])

\* C18 as stated: generate_embeddings_batch returns one vector per text in the
\* order of the texts, sends the texts that are not cached in one request and
\* sends no request when every text is cached
C18_BatchInOrderWithOneRequest ==
    \A i \in BatchesReturned :
        LET h == embed_history[i]
        IN  /\ InInputOrder(h)
            /\ Len(InputsOfCall(h.id)) <= 1
            /\ h.hits = 1..Len(h.texts) => InputsOfCall(h.id) = <<>>

\* the texts of the finished call h that were not cached, batch by batch of
\* batch_size texts from offset i on, the batches without such a text left out
RECURSIVE UncachedByBatch(_, _)
UncachedByBatch(h, i) ==
    IF i >= Len(h.texts) THEN <<>>
    ELSE LET places == SelectSeq([j \in 1..Len(h.texts) |-> j],
                                 LAMBDA j : /\ j > i
                                            /\ j <= i + h.batch_size
                                            /\ j \notin h.hits)
             misses == [k \in 1..Len(places) |-> h.texts[places[k]]]
         IN  (IF misses = <<>> THEN <<>> ELSE <<misses>>)
                 \o UncachedByBatch(h, i + h.batch_size)

\* C18 amended: generate_embeddings_batch returns one vector per text in the
\* order of the texts; for every batch of batch_size consecutive texts that
\* holds a text that is not cached it sends one request with the uncached
\* texts of that batch in their order, and it sends no other request, so none
\* when every text is cached
C18_BatchInOrderOneRequestPerBatch ==
    \A i \in BatchesReturned :
        LET h == embed_history[i]
        IN  /\ InInputOrder(h)
            /\ InputsOfCall(h.id) = UncachedByBatch(h, 0)

\* a call of generate_embeddings_batch has returned the vectors of a batch in
\* which a cached text stands before one that was sent to the embedding model
C18_HitBeforeMissReturned ==
    \E i \in BatchesReturned :
        LET h == embed_history[i]
        IN  /\ h.batch_size >= 2
            /\ 1 \in h.hits
            /\ Len(h.texts) >= 2
            /\ 2 \notin h.hits
            /\ InputsOfCall(h.id) = << <<h.texts[2]>> >>

\* one of the texts is empty or holds whitespace only
HasBlank(texts) == \E i \in 1..Len(texts) : strip(texts[i]) = <<>>

\* C19: a call of generate_embedding or generate_embeddings_batch with a text
\* that is empty or whitespace only is rejected as invalid at once: it is
\* never in progress, it sends no request to the embedding model, and it
\* leaves the cache and the rate limiting counters as they were
C19_BlankTextRejected ==
    /\ \A r \in DOMAIN call :
           call[r].pc \notin {"none", "idle"} => ~HasBlank(call[r].texts)
    /\ \A i \in 1..Len(embed_history) :
           LET h == embed_history[i]
           IN  HasBlank(h.texts) =>
                   /\ h.outcome = "invalid"
                   /\ h.externals = 0
                   /\ h.stores = 0
                   /\ h.after = h.before

(***************************************************************************)
(* Claims about the streaming conversation                                 *)
(***************************************************************************)
\* the places of the events of the given types
EventsOfType(types) ==
    { k \in 1..Len(stream.events) : stream.events[k].type \in types }

\* C20: a stream that has ended without being cancelled has delivered a
\* terminal event last (complete, done or error); when it has delivered an error
\* event there is one, it is the last event, and no complete or done event
\* follows it
C20_StreamEndsWithOneTerminal ==
    stream.pc = "closed" /\ ~stream.cancelled =>
        /\ stream.events # <<>>
        /\ stream.events[Len(stream.events)].type \in {"complete", "done", "error"}
        /\ EventsOfType({"complete"}) = {} => Cardinality(EventsOfType({"error"})) = 1
        /\ \A k \in EventsOfType({"error"}) :
               /\ k = Len(stream.events)
               /\ \A j \in EventsOfType({"complete", "done"}) : j < k

\* the contents of the content events delivered up to event n, concatenated
RECURSIVE DeltasUpTo(_)
DeltasUpTo(n) ==
    IF n = 0 THEN <<>>
    ELSE DeltasUpTo(n - 1)
             \o (IF stream.events[n].type = "content"
                 THEN stream.events[n].content ELSE <<>>)

\* C21: in a stream, the content deltas delivered so far concatenate to the
\* full_response of the latest content event; the citations and the coverage
\* report of the complete event are computed from the concatenation of all
\* deltas, and no content event follows the complete event
C21_DeltasConcatenateToFullResponse ==
    stream.pc # "none" =>
        /\ \A k \in EventsOfType({"content"}) :
               stream.events[k].full_response = DeltasUpTo(k)
        /\ \A k \in EventsOfType({"complete"}) :
               /\ stream.events[k].citations = ComputedFrom(DeltasUpTo(k))
               /\ stream.events[k].coverage_report = ComputedFrom(DeltasUpTo(k))
               /\ DeltasUpTo(k) = DeltasUpTo(Len(stream.events))
               /\ \A j \in EventsOfType({"content"}) : j < k

\* a stream has completed after two content events with different contents
C21_Witness ==
    /\ stream.pc = "closed"
    /\ EventsOfType({"complete"}) # {}
    /\ \E j \in EventsOfType({"content"}), k \in EventsOfType({"content"}) :
           j < k /\ stream.events[j].content # stream.events[k].content

(***************************************************************************)
(* Claims about prompt assembly                                            *)
(***************************************************************************)
\* the messages that the exchanges a..b of history h contribute, exchange by
\* exchange: its user text, then its assistant text, each when it has one
RECURSIVE TurnMessages(_, _, _)
TurnMessages(h, a, b) ==
    IF a > b THEN <<>>
    ELSE (IF h[a].user # <<>>
          THEN <<[role |-> "user",
                  content |-> [kind |-> "text", text |-> h[a].user, context |-> <<>>]]>>
          ELSE <<>>)
         \o (IF h[a].assistant # <<>>
             THEN <<[role |-> "assistant",
                     content |-> [kind |-> "text", text |-> h[a].assistant,
                                  context |-> <<>>]]>>
             ELSE <<>>)
         \o TurnMessages(h, a + 1, b)

\* C22: the messages of _build_prompt begin with the system message, end with
\* the one user prompt that holds the context listing and the user message, and
\* hold between them exactly the messages of the last 5 exchanges of the
\* history in their order, at most a user message followed by an assistant
\* message per exchange; they are at most 12
C22_PromptShape ==
    prompt.messages # <<>> =>
        LET m == prompt.messages
            h == prompt.conversation_history
            last == m[Len(m)]
        IN  /\ Len(m) >= 2
            /\ Len(m) <= 12
            /\ m[1].role = "system" /\ m[1].content.kind = "system_prompt"
            /\ last.role = "user"
            /\ last.content.kind = "user_prompt"
            /\ last.content.text = prompt.user_message
            /\ Len(last.content.context) = Len(context_chunks)
            /\ \A i \in 1..Len(context_chunks) :
                   last.content.context[i].chunk = context_chunks[i].id
            /\ SubSeq(m, 2, Len(m) - 1)
                   = TurnMessages(h, IF Len(h) > 5 THEN Len(h) - 4 ELSE 1, Len(h))

\* a prompt was built from a history of more than 5 exchanges whose first
\* exchange has texts and one of whose last 5 has an assistant text only
C22_Witness ==
    /\ prompt.messages # <<>>
    /\ Len(prompt.conversation_history) > 5
    /\ prompt.conversation_history[1].user # <<>>
    /\ \E i \in 2..Len(prompt.conversation_history) :
           /\ prompt.conversation_history[i].user = <<>>
           /\ prompt.conversation_history[i].assistant # <<>>
    /\ context_chunks # <<>>

(***************************************************************************)
(* Claims about document ingestion                                         *)
(***************************************************************************)

InProgress == {"pending", "chunking", "indexing"}

\* the moves of the processing status state machine pending -> chunking ->
\* indexing -> completed with error reachable from the in-progress states; a
\* reprocess call may restart a document through "processing"
StatusMoves ==
    { <<None, "pending">>, <<"pending", "chunking">>, <<"chunking", "indexing">>,
      <<"indexing", "completed">>, <<"processing", "chunking">>,
      <<"processing", "error">> }
    \cup { <<s, "error">> : s \in InProgress }
    \cup { <<s, "processing">> : s \in InProgress \cup {"completed", "error"} }

RunsOf(d) == { r \in DOMAIN ingest.runs : ingest.runs[r].doc = d }

\* every chunk-processing run started for document d has ended
Settled(d) ==
    /\ RunsOf(d) # {}
    /\ \A r \in RunsOf(d) : ingest.runs[r].pc = "ended"

\* C23: the processing status of a document only moves along pending ->
\* chunking -> indexing -> completed, with error reachable from the
\* in-progress states: a new document is not completed before its chunks are
\* embedded, and a document all of whose runs succeeded is completed
C23_StatusFollowsStateMachine ==
    /\ [][\A d \in DocIds :
              processing_status'[d] # processing_status[d]
                  => <<processing_status[d], processing_status'[d]>> \in StatusMoves]_vars
    /\ [](\A d \in DocIds :
              (Settled(d) /\ \A r \in RunsOf(d) : ingest.runs[r].outcome = "indexed")
                  => processing_status[d] = "completed")

\* the statuses in which the state machine of the documents ends
TerminalStatuses == {"completed", "error"}

\* C24: once every chunk-processing run started for a document has ended, the
\* document is in a terminal status and not in an in-progress one; when the
\* runs failed, the status is error and the error message is retained
C24_RunLeavesTerminalStatus ==
    \A d \in DocIds :
        Settled(d) =>
            /\ processing_status[d] \in TerminalStatuses
            /\ (\A r \in RunsOf(d) : ingest.runs[r].outcome = "error")
                   => /\ processing_status[d] = "error"
                      /\ ingest.error_message[d] # None

ChunksOf(d) == { c \in chunks : c.document_id = d }

\* C25: the chunks persisted for a document have the sequence indices
\* 0..n-1, none of them twice, and were created in sequence order
C25_SequenceIndicesContiguous ==
    \A d \in DocIds :
        LET rows == ChunksOf(d)
        IN  /\ { c.sequence_number : c \in rows } = 0..(Cardinality(rows) - 1)
            /\ \A a, b \in rows : a.id < b.id => a.sequence_number < b.sequence_number

(***************************************************************************)
(* Claims about beats                                                      *)
(***************************************************************************)

\* C26: the beats of an episode are ordered by a strictly increasing sequence
\* number: no two beats of an episode share a sequence number and a beat
\* created later has a larger sequence number than every earlier one
C26_BeatSequenceStrictlyIncreasing ==
    \A a, b \in beats :
        (a.episode_id = b.episode_id /\ a.id < b.id)
            => a.sequence_number < b.sequence_number

(***************************************************************************)
(* Claims about the selection of retrieved chunks                          *)
(***************************************************************************)

\* K holds the positions of the candidates a greedy scan keeps: a candidate
\* is kept exactly when fewer than max_chunks candidates and fewer than
\* three of its document were kept before it
GreedyKept(K, candidates, max_chunks) ==
    \A i \in 1..Len(candidates) :
        i \in K <=>
            /\ Cardinality({ j \in K : j < i }) < max_chunks
            /\ Cardinality({ j \in K : /\ j < i
                                       /\ candidates[j][1].document_id =
                                              candidates[i][1].document_id }) < 3

\* position in the candidates of the k-th member of K
KthOf(K, k) == CHOOSE i \in K : Cardinality({ j \in K : j <= i }) = k

\* C27: a retrieval asks the index for at most 2 * max_chunks candidates and
\* returns at most max_chunks chunks, in descending order of similarity,
\* which are exactly the candidates a greedy scan in that order keeps
C27_GreedySelection ==
    (pc = "retrieved" /\ retrieval.outcome = "ok") =>
        /\ Len(similar_chunks) <= 2 * max_context_chunks
        /\ Len(context_chunks) <= max_context_chunks
        /\ \E K \in SUBSET (1..Len(similar_chunks)) :
              /\ GreedyKept(K, similar_chunks, max_context_chunks)
              /\ Len(context_chunks) = Cardinality(K)
              /\ \A k \in 1..Cardinality(K) :
                    /\ context_chunks[k].id = similar_chunks[KthOf(K, k)][1].id
                    /\ k > 1 => similar_chunks[KthOf(K, k - 1)][2] >=
                                    similar_chunks[KthOf(K, k)][2]

\* a retrieval kept max_chunks of more candidates than that, passing over a
\* candidate of a document already kept three times for a later candidate of
\* lower similarity
C27_Witness ==
    /\ pc = "retrieved"
    /\ retrieval.outcome = "ok"
    /\ Len(context_chunks) = max_context_chunks
    /\ Len(similar_chunks) > max_context_chunks + 1
    /\ \E i, j \in 1..Len(similar_chunks) :
          /\ i < j
          /\ similar_chunks[i][2] > similar_chunks[j][2]
          /\ \A k \in 1..Len(context_chunks) : context_chunks[k].id # similar_chunks[i][1].id
          /\ \E k \in 1..Len(context_chunks) : context_chunks[k].id = similar_chunks[j][1].id

(***************************************************************************)
(* Claims about the termination of the chunker                             *)
(***************************************************************************)

\* C28: fixed-with-overlap chunking terminates for every text and every
\* chunk_size >= 1 and 0 <= chunk_overlap < chunk_size: the start of the
\* window moves strictly forward in every iteration of the loop
C28_RecursiveChunkingTerminates ==
    ( /\ chunking.method = "recursive_character"
      /\ chunking.result # NoResult
      /\ chunking.chunk_size >= 1
      /\ 0 <= chunking.chunk_overlap
      /\ chunking.chunk_overlap < chunking.chunk_size )
        => chunking.result.outcome # "hangs"

(***************************************************************************)
(* Claims about bulk validation after a conversation                       *)
(***************************************************************************)

\* the stored citations of the episode of the request whose chunk exists
TrackedWithChunk ==
    { c \in db_citations :
        /\ c.episode_id = episode_id
        /\ \E ch \in chunks : ch.id = c.chunk_id }

\* C29: after a conversation request with an episode id has tracked its
\* citations and recorded its beat, bulk validation of the episode validates
\* every one of these citations whose chunk exists: validated_citations equals
\* total_citations and each citation has a validation score
C29_BulkValidatesTrackedCitations ==
    (pc = "done" /\ validation.op = "bulk" /\ ~validation.raised) =>
        /\ validation.report.validated_citations = validation.report.total_citations
        /\ \A c \in TrackedWithChunk : c.validation_score # NoScore

(***************************************************************************)
(* Claims about the WebSocket connections                                  *)
(***************************************************************************)

OpenSockets ==
    { w \in Sockets : manager.sockets[w].pc \in {"receiving", "chatting", "streaming"} }

\* C30: a user stays registered as long as one of their connections is open,
\* whatever other connections of the same user id open and close, and no
\* message produced on an open connection is silently dropped
C30_OpenConnectionStaysRegistered ==
    /\ \A w \in OpenSockets : manager.active_connections[manager.sockets[w].user_id] # None
    /\ manager.dropped = 0
====
